---- MODULE Spec2Model ----
(***************************************************************************)
(* MarmotteDB: the paged, append-only record log                           *)
(* (storage/disk_writer.rs, storage/disk_reader.rs) and the sorted index   *)
(* fragments (indexes/sorted_index_table.rs), modelled at the level of the *)
(* bytes of the log file and of the fragment files.                        *)
(*                                                                         *)
(* The file is a sequence of bytes (0..255); its length is the file        *)
(* length.  A u64 is written as 8 big-endian bytes, the u32 checksum as 4  *)
(* big-endian bytes.  Every number the model reaches is below 2^31, so the *)
(* upper four bytes of a u64 are zero when written; a u64 read back with a *)
(* non-zero upper half saturates at U64Huge.  A u32 checksum is kept as    *)
(* its four bytes, most significant first.                                 *)
(***************************************************************************)
EXTENDS Integers, Sequences, FiniteSets, TLC

(***************************************************************************)
(* Bounds of the model                                                     *)
(***************************************************************************)
\* total number of records the writer may append in one behaviour
MaxRecords == 3
\* longest list handed to one bulk_add_records call
MaxBulk == 2
\* number of records the environment may alter on disk (SpecCorrupt)
MaxCorrupt == 1
\* number of times a writer is opened again on the existing log (SpecReopen)
MaxReopen == 1

\* number of store calls in one behaviour (SpecStore)
MaxStores == 5
\* number of calls on the index in one behaviour (SpecIndex)
MaxIndexOps == 3
\* longest value handed to write_offset on the String index (SpecSlot)
MaxValueLen == 3
\* number of write_offset calls on the String index in one behaviour (SpecSlot)
MaxSlotWrites == 2
\* number of values written to one BinaryWriter (SpecBinary)
MaxWrites == 3
\* number of values written and of reads made in any order (SpecBinaryAny)
MaxAnyCalls == 2
\* longest array, most properties of an object in a document (SpecJson)
MaxItems == 2
\* longest array of a document handed to get_property_value (SpecDocument)
MaxElements == 3

\* contents handed to add_record / bulk_add_records
Buffers == { <<>>, <<97, 98>> }
\* page_size arguments of DiskWriter::new
PageSizes == { 45, 64 }
\* values of the entries handed to store (SpecStore)
StoreValues == 0..4
\* values of the entries handed to the calls on the index (SpecIndex)
IndexValues == 0..2

(***************************************************************************)
(* Generic helpers on sequences                                            *)
(***************************************************************************)
Max(a, b) == IF a >= b THEN a ELSE b

\* the one element of a singleton set.  Eval({ F(x) : x \in {e} }) is F(e)
\* with e evaluated once.
Eval(S) == CHOOSE v \in S : TRUE

\* the sequences over S of length 0..n
SeqsUpTo(S, n) == UNION { [1..k -> S] : k \in 0..n }

(***************************************************************************)
(* binary.rs: big-endian primitives                                        *)
(***************************************************************************)
U64Huge == 2147483647

\* BinaryWriter::write_u64 / BytesMut::put_u64: 8 bytes, most significant first
write_u64(n) ==
    [i \in 1..8 |-> IF i <= 4 THEN 0 ELSE (n \div (256 ^ (8 - i))) % 256]

\* BinaryReader::read_u64 on an 8-byte buffer: u64::from_be_bytes
read_u64(bs) ==
    IF bs[1] # 0 \/ bs[2] # 0 \/ bs[3] # 0 \/ bs[4] # 0 \/ bs[5] >= 128
    THEN U64Huge
    ELSE bs[5] * 16777216 + bs[6] * 65536 + bs[7] * 256 + bs[8]

(***************************************************************************)
(* crc32fast::hash: CRC-32 (IEEE 802.3, reflected polynomial 0xEDB88320),  *)
(* computed four bits at a time.  The 32-bit register is a sequence of 8   *)
(* nibbles, least significant first.                                       *)
(***************************************************************************)
Xor4 ==
    [a \in 0..15 |-> [b \in 0..15 |->
        (((a % 2) + (b % 2)) % 2)
      + 2 * ((((a \div 2) % 2) + ((b \div 2) % 2)) % 2)
      + 4 * ((((a \div 4) % 2) + ((b \div 4) % 2)) % 2)
      + 8 * (((a \div 8) + (b \div 8)) % 2)]]

XorReg(x, y) == [i \in 1..8 |-> Xor4[x[i]][y[i]]]

\* 0xEDB88320, least significant nibble first
CrcPoly == <<0, 2, 3, 8, 8, 11, 13, 14>>

ShiftRight1(x) ==
    [i \in 1..8 |-> (x[i] \div 2) + (IF i < 8 THEN 8 * (x[i + 1] % 2) ELSE 0)]

ShiftRight4(x) == [i \in 1..8 |-> IF i < 8 THEN x[i + 1] ELSE 0]

CrcRound(x) ==
    IF x[1] % 2 = 1 THEN XorReg(ShiftRight1(x), CrcPoly) ELSE ShiftRight1(x)

\* the 16-entry table of the half-byte algorithm
CrcTable ==
    [n \in 0..15 |->
        CrcRound(CrcRound(CrcRound(CrcRound([i \in 1..8 |-> IF i = 1 THEN n ELSE 0]))))]

CrcNibble(x, n) == XorReg(CrcTable[Xor4[x[1]][n]], ShiftRight4(x))

CrcByte(x, b) == CrcNibble(CrcNibble(x, b % 16), b \div 16)

RECURSIVE CrcFold(_, _)
CrcFold(x, buf) == IF buf = <<>> THEN x ELSE CrcFold(CrcByte(x, Head(buf)), Tail(buf))

\* the checksum of buf as its 4 big-endian bytes
crc32(buf) ==
    LET r == CrcFold([i \in 1..8 |-> 15], buf)
        f == [i \in 1..8 |-> 15 - r[i]]
    IN  << f[8] * 16 + f[7], f[6] * 16 + f[5], f[4] * 16 + f[3], f[2] * 16 + f[1] >>

(***************************************************************************)
(* std::fs::File as seen through one handle: the bytes of the file and the *)
(* handle's cursor.  h = [file |-> bytes, cursor |-> offset].              *)
(***************************************************************************)
\* Seek::seek(SeekFrom::Start(pos))
seek(h, pos) == [h EXCEPT !.cursor = pos]

\* Write::write_all at the cursor: overwrites, extends the file when the
\* write ends beyond its length (a gap before the cursor reads as zeros)
write_all(handle, data) ==
    Eval({ [h EXCEPT
              !.file = [i \in 1..Max(Len(h.file), h.cursor + Len(bytes)) |->
                          IF i > h.cursor /\ i <= h.cursor + Len(bytes)
                          THEN bytes[i - h.cursor]
                          ELSE IF i <= Len(h.file) THEN h.file[i]
                          ELSE 0],
              !.cursor = h.cursor + Len(bytes)] : h \in {handle}, bytes \in {data} })

\* File::set_len: truncates or extends with zeros, the cursor stays
set_len(handle, n) ==
    Eval({ [h EXCEPT !.file = [i \in 1..n |-> IF i <= Len(h.file) THEN h.file[i] ELSE 0]]
           : h \in {handle} })

\* the n bytes at offset pos (callers check that they exist)
BytesAt(f, pos, n) == SubSeq(f, pos + 1, pos + n)

(***************************************************************************)
(* storage/disk_writer.rs: RecordsFileMeta and Record                      *)
(***************************************************************************)
RecordsFileMeta_size == 8 + 8 + 8 + 8

MetaVersion == 1

empty_with_page_size(page_size) ==
    [version |-> MetaVersion, records_count |-> 0,
     position |-> RecordsFileMeta_size, page_size |-> page_size]

\* the 32 header bytes write_metadata_and_fsync builds
MetaBytes(meta) ==
    write_u64(meta.version) \o write_u64(meta.records_count)
      \o write_u64(meta.position) \o write_u64(meta.page_size)

\* RecordsFileMeta::read_metadata: File::read fills what the file holds of
\* the 32 bytes, the rest of the buffer stays zero
read_metadata(f) ==
    Eval({ [version       |-> read_u64(SubSeq(buf, 1, 8)),
            records_count |-> read_u64(SubSeq(buf, 9, 16)),
            position      |-> read_u64(SubSeq(buf, 17, 24)),
            page_size     |-> read_u64(SubSeq(buf, 25, 32))]
           : buf \in { [i \in 1..RecordsFileMeta_size |->
                          IF i <= Len(f) THEN f[i] ELSE 0] } })

\* faulty variant: the checksum is taken over the length prefix and the content
MakeRecord_ChecksumOfFrame(position, buf) ==
    [position |-> position, content_size |-> Len(buf), content |-> buf,
     deleted |-> FALSE, checksum |-> crc32(write_u64(Len(buf)) \o buf)]

\* the Record literal of add_record / bulk_add_records
MakeRecord(position, buf) ==
    [position |-> position, content_size |-> Len(buf), content |-> buf,
     deleted |-> FALSE, checksum |-> crc32(buf)]

\* faulty variant: the deleted flag is not counted
Record_size_NoFlag(record) == 8 + 4 + record.content_size

\* faulty variant: one byte too many is counted
Record_size_TwoFlags(record) == 8 + 4 + record.content_size + 1 + 1

Record_size(record) == 8 + 4 + record.content_size + 1

\* faulty variant: the checksum is written before the length
Record_to_bytes_ChecksumFirst(record) ==
    record.checksum \o write_u64(record.content_size) \o record.content
      \o << IF record.deleted THEN 1 ELSE 0 >>

Record_to_bytes(record) ==
    write_u64(record.content_size) \o record.checksum \o record.content
      \o << IF record.deleted THEN 1 ELSE 0 >>

(***************************************************************************)
(* storage/disk_writer.rs: DiskWriter.                                     *)
(* w = [file |-> bytes, cursor |-> offset, meta |-> the in-memory meta,     *)
(*      page_size |-> DiskWriter.page_size,                                *)
(*      durable |-> the bytes of the file as of the last sync_all].        *)
(***************************************************************************)
\* File::sync_all: what is in the file is now on the medium
sync_all(w) == [w EXCEPT !.durable = w.file]

write_metadata_and_fsync(w, meta) == sync_all(write_all(seek(w, 0), MetaBytes(meta)))

\* DiskWriter::new on a path that does not exist
new(page_size) ==
    LET created == [file |-> <<>>, cursor |-> 0, meta |-> empty_with_page_size(page_size),
                    page_size |-> page_size, durable |-> <<>>]
        sized   == IF Len(created.file) < page_size THEN set_len(created, page_size)
                   ELSE created
        written == write_metadata_and_fsync(sized, sized.meta)
    IN  \* read_metadata(&mut w.file) leaves the cursor behind the header
        seek(written, RecordsFileMeta_size)

\* faulty variant: the stored header is not loaded, the writer starts from
\* an empty meta
new_existing_Fresh(old, page_size) ==
    LET opened == [file |-> old.file, cursor |-> 0,
                   meta |-> empty_with_page_size(page_size),
                   page_size |-> page_size, durable |-> old.durable]
        sized  == IF Len(opened.file) < page_size THEN set_len(opened, page_size)
                  ELSE opened
    IN  [kind |-> "ok", w |-> seek(sized, RecordsFileMeta_size)]

\* DiskWriter::new on the path of the log that the handle old was writing:
\* the file is extended when shorter than page_size, the struct is built
\* with the page_size argument and load_metadata replaces its meta by the
\* stored header.  No path of the function compares the stored header with
\* anything, so the result is always Ok.
new_existing(old, page_size) ==
    LET opened == [file |-> old.file, cursor |-> 0,
                   meta |-> empty_with_page_size(page_size),
                   page_size |-> page_size, durable |-> old.durable]
        sized  == IF Len(opened.file) < page_size THEN set_len(opened, page_size)
                  ELSE opened
    IN  [kind |-> "ok",
         w |-> [seek(sized, RecordsFileMeta_size) EXCEPT
                   !.meta = read_metadata(sized.file)]]

allocate_page(w) == set_len(w, Len(w.file) + w.page_size)

allocate_page_if_needed(w) ==
    IF w.meta.position >= Len(w.file) THEN allocate_page(w) ELSE w

allocate_page_if_position_need(w, position) ==
    IF position > Len(w.file) THEN set_len(w, position) ELSE w

\* write_record up to and including the sync_all that follows the write of
\* the record's bytes
write_record_data(w, record) ==
    sync_all(write_all(seek(allocate_page_if_needed(w), w.meta.position),
                       Record_to_bytes(record)))

\* write_record from the update of the in-memory meta to the header write
write_record_meta(w, record) ==
    LET m == [w.meta EXCEPT !.position = @ + Record_size(record),
                            !.records_count = @ + 1]
    IN  write_metadata_and_fsync([w EXCEPT !.meta = m], m)

write_record(w, record) == write_record_meta(write_record_data(w, record), record)

\* faulty variant: the stream position of the handle is returned
record_position_Cursor(w) == w.cursor

\* the value add_record returns
record_position(w) == w.meta.position

add_record(w, buf) == write_record(w, MakeRecord(w.meta.position, buf))

\* the loop of bulk_add_records: the end position and the concatenated bytes
RECURSIVE bulk_records(_, _)
bulk_records(position, buffers) ==
    IF buffers = <<>> THEN [position |-> position, bin_records |-> <<>>]
    ELSE LET record == MakeRecord(position, Head(buffers))
             rest   == bulk_records(position + Record_size(record), Tail(buffers))
         IN  [position |-> rest.position,
              bin_records |-> Record_to_bytes(record) \o rest.bin_records]

\* faulty variant: the batch is written where rewind_to_start leaves the handle
bulk_add_records_data_Rewound(w, buffers) ==
    LET b == bulk_records(w.meta.position, buffers)
    IN  write_all(allocate_page_if_position_need(seek(w, RecordsFileMeta_size), b.position),
                  b.bin_records)

\* bulk_add_records up to and including the write of the batch; there is
\* no sync between this write and update_meta_and_fsync
bulk_add_records_data(w, buffers) ==
    LET b == bulk_records(w.meta.position, buffers)
    IN  write_all(allocate_page_if_position_need(seek(w, w.meta.position), b.position),
                  b.bin_records)

\* faulty variant: the new position is not stored
update_meta_and_fsync_KeepPosition(w, records_count, position) ==
    LET m == [w.meta EXCEPT !.records_count = records_count]
    IN  write_metadata_and_fsync([w EXCEPT !.meta = m], m)

update_meta_and_fsync(w, records_count, position) ==
    LET m == [w.meta EXCEPT !.position = position, !.records_count = records_count]
    IN  write_metadata_and_fsync([w EXCEPT !.meta = m], m)

\* bulk_add_records from update_meta_and_fsync on
bulk_add_records_meta(w, buffers) ==
    update_meta_and_fsync(w, Len(buffers), bulk_records(w.meta.position, buffers).position)

bulk_add_records(w, buffers) ==
    bulk_add_records_meta(bulk_add_records_data(w, buffers), buffers)

\* a whole sequence of add_record calls
RECURSIVE add_records(_, _)
add_records(w, buffers) ==
    IF buffers = <<>> THEN w ELSE add_records(add_record(w, Head(buffers)), Tail(buffers))

(***************************************************************************)
(* storage/disk_reader.rs: DiskReader                                      *)
(***************************************************************************)
\* DiskReaderOptions::create_default().max_record_size
DefaultMaxRecordSize == 80 * 1024 * 1024

None == [kind |-> "none"]
Some(record) == [kind |-> "some", record |-> record]

\* faulty variant: the checksum is not verified
read_next_record_NoChecksum(f, cursor, meta, max_record_size) ==
    IF cursor + 12 > Len(f) THEN [kind |-> "panic", cursor |-> cursor]
    ELSE
      LET len == read_u64(BytesAt(f, cursor, 8))
      IN  IF len > max_record_size THEN [kind |-> "err", cursor |-> cursor + 12]
          ELSE IF cursor + 12 + len + 1 > Len(f) THEN [kind |-> "panic", cursor |-> cursor]
          ELSE [kind |-> "ok", cursor |-> cursor + 12 + len + 1,
                record |-> [position |-> meta.position, content_size |-> len,
                            content |-> BytesAt(f, cursor + 12, len),
                            deleted |-> f[cursor + 12 + len + 1] # 0,
                            checksum |-> crc32(BytesAt(f, cursor + 12, len))]]

\* read_next_record with the file cursor at `cursor`.  kind is "ok" (record),
\* "err" (the Err results) or "panic" (read_exact(..).unwrap() at the end of
\* the file); cursor is where the handle is left.
read_next_record(f, cursor, meta, max_record_size) ==
    IF cursor + 12 > Len(f) THEN [kind |-> "panic", cursor |-> cursor]
    ELSE
      LET len  == read_u64(BytesAt(f, cursor, 8))
          hash == BytesAt(f, cursor + 8, 4)
      IN  IF len > max_record_size THEN [kind |-> "err", cursor |-> cursor + 12]
          ELSE IF cursor + 12 + len + 1 > Len(f) THEN [kind |-> "panic", cursor |-> cursor]
          ELSE
            LET buf      == BytesAt(f, cursor + 12, len)
                deleted  == f[cursor + 12 + len + 1] # 0
                checksum == crc32(buf)
                after    == cursor + 12 + len + 1
            IN  IF checksum # hash THEN [kind |-> "err", cursor |-> after]
                ELSE [kind |-> "ok", cursor |-> after,
                      record |-> [position |-> meta.position, content_size |-> len,
                                  content |-> buf, deleted |-> deleted,
                                  checksum |-> checksum]]

\* faulty variant: the end of the log is taken from the header in the file
\* at each call, not from the meta read when the reader was opened
next_LiveHeader(f, cursor, meta, max_record_size) ==
    IF cursor < read_metadata(f).position
    THEN LET res == read_next_record(f, cursor, meta, max_record_size)
         IN  IF res.kind = "ok" THEN [item |-> Some(res.record), cursor |-> res.cursor]
             ELSE IF res.kind = "err" THEN [item |-> None, cursor |-> res.cursor]
             ELSE [item |-> [kind |-> "panic"], cursor |-> res.cursor]
    ELSE [item |-> None, cursor |-> cursor]

\* Iterator::next: what it returns ("panic" when read_next_record panics)
\* and where it leaves the cursor
next(f, cursor, meta, max_record_size) ==
    IF cursor < meta.position
    THEN LET res == read_next_record(f, cursor, meta, max_record_size)
         IN  IF res.kind = "ok" THEN [item |-> Some(res.record), cursor |-> res.cursor]
             ELSE IF res.kind = "err" THEN [item |-> None, cursor |-> res.cursor]
             ELSE [item |-> [kind |-> "panic"], cursor |-> res.cursor]
    ELSE [item |-> None, cursor |-> cursor]

\* the predicates handed to find_record: F : Fn(Box<Record>, u64) -> bool
Predicates ==
    { [kind |-> "ordinal", k |-> k, content |-> <<>>] : k \in 1..2 }
      \cup { [kind |-> "content", k |-> 0, content |-> b] : b \in Buffers }
      \cup { [kind |-> "never", k |-> 0, content |-> <<>>] }

Apply(f, record, current_id) ==
    CASE f.kind = "ordinal" -> current_id = f.k
      [] f.kind = "content" -> record.content = f.content
      [] OTHER -> FALSE

\* the loop of find_record, entered with current_id already incremented
RECURSIVE find_loop(_, _, _, _, _, _)
find_loop(f, cursor, meta, max_record_size, pred, current_id) ==
    IF cursor < meta.position
    THEN LET res == read_next_record(f, cursor, meta, max_record_size)
         IN  IF res.kind = "panic" THEN [item |-> [kind |-> "panic"], cursor |-> res.cursor]
             ELSE IF res.kind = "err" THEN [item |-> None, cursor |-> res.cursor]
             ELSE IF Apply(pred, res.record, current_id)
                  THEN [item |-> Some(res.record), cursor |-> res.cursor]
                  ELSE find_loop(f, res.cursor, meta, max_record_size, pred, current_id + 1)
    ELSE [item |-> None, cursor |-> cursor]

\* faulty variant: the cursor is left where it is
rewind_to_start_Stay(cursor) == cursor

\* rewind_to_start
rewind_to_start(cursor) == RecordsFileMeta_size

find_record(f, cursor, meta, max_record_size, pred) ==
    find_loop(f, rewind_to_start(cursor), meta, max_record_size, pred, 0 + 1)

\* seek_to
seek_to(cursor, position) == position

(***************************************************************************)
(* indexes/sorted_index_table.rs: SortedIndexFiles<u32>, the sorted index  *)
(* kept in fragment files, modelled at the level of the bytes of the       *)
(* fragment files, with the u32 value reader and writer                    *)
(* (default_u32_reader, default_u32_writer) and default_value 0.           *)
(*                                                                         *)
(* x = [files |-> the .ix files of the folder, a function from fragment    *)
(*               numbers to bytes,                                         *)
(*      handles |-> write_handles, as the fragment number each handle was  *)
(*                  opened on (handle i is handles[i + 1]),                *)
(*      fragment_count |-> SortedIndexFiles.fragment_count,                *)
(*      written |-> history: the FenseIndex last written to each           *)
(*                  <<fragment number, slot>>].                            *)
(* A FenseIndex is [active, target, value].                                *)
(***************************************************************************)
\* the arguments of SortedIndexFiles::new
default_value == 0
max_records_count_per_fragments == 3
shift_threshold == 1

\* u32::to_le_bytes
to_le_bytes(n) ==
    << n % 256, (n \div 256) % 256, (n \div 65536) % 256, (n \div 16777216) % 256 >>

\* u32::from_le_bytes
from_le_bytes(bs) ==
    IF bs[4] >= 128 THEN U64Huge
    ELSE bs[1] + bs[2] * 256 + bs[3] * 65536 + bs[4] * 16777216

\* BinaryWriter::write_u32: 4 bytes, most significant first
write_u32(n) == [i \in 1..4 |-> (n \div (256 ^ (4 - i))) % 256]

\* BinaryReader::read_u32 on a 4-byte buffer
read_u32(bs) ==
    IF bs[1] >= 128 THEN U64Huge
    ELSE bs[1] * 16777216 + bs[2] * 65536 + bs[3] * 256 + bs[4]

\* u32::get_binary_size
u32_get_binary_size == 4

\* FenseIndex::get_prefix_binary_size: (active bool) + (target u64)
get_prefix_binary_size == 1 + 8

\* FenseIndex::get_binary_size
FenseIndex_get_binary_size(ix) == get_prefix_binary_size + u32_get_binary_size

\* SortedIndexTableFragmentHeader::get_binary_size
Header_get_binary_size(value_binary_size) == 4 + 4 + 4 + value_binary_size + value_binary_size

\* the ValueDefaultSizeInfo the callers' compute_value_default_size returns
compute_value_default_size ==
    [prefix_size |-> get_prefix_binary_size,
     total_size  |-> FenseIndex_get_binary_size([active |-> TRUE, target |-> 0, value |-> 0])]

\* Read::read into a zeroed buffer of n bytes with the cursor at pos: the
\* bytes the file has from pos on, the rest of the buffer stays zero; pos is
\* where the cursor is left
file_read(f, pos, n) ==
    [buf |-> [i \in 1..n |-> IF pos + i <= Len(f) THEN f[pos + i] ELSE 0],
     pos |-> IF pos >= Len(f) THEN pos ELSE IF pos + n <= Len(f) THEN pos + n ELSE Len(f)]

\* seek(SeekFrom::Start(pos)) and write_all(data) on a file
file_write(f, pos, data) == write_all([file |-> f, cursor |-> pos], data).file

\* default_u32_writer
write_value(v) == write_u32(v)

\* default_u32_reader with the cursor at pos
read_value(f, pos) ==
    LET r == file_read(f, pos, u32_get_binary_size)
    IN  [value |-> read_u32(r.buf), pos |-> r.pos]

\* the file behind write_handles[num]
HandleFile(x, num) == x.files[x.handles[num + 1]]

\* handles[num] = f for the file behind write_handles[num]
SetHandleFile(x, num, f) ==
    [x EXCEPT !.files = [k \in DOMAIN x.files |->
                            IF k = x.handles[num + 1] THEN f ELSE x.files[k]]]

\* write_header
write_header(x0, num, min_value, max_value, records_count) ==
    Eval({ SetHandleFile(x, num,
               file_write(HandleFile(x, num), 0,
                          to_le_bytes(max_records_count_per_fragments)
                            \o to_le_bytes(records_count)
                            \o to_le_bytes(shift_threshold)
                            \o write_value(min_value)
                            \o write_value(max_value)))
           : x \in {x0} })

\* read_header: three u32 fields, then the two values, read one after the other
read_header(x, num) ==
    Eval({ LET a == file_read(f, 0, 4)
               b == file_read(f, a.pos, 4)
               c == file_read(f, b.pos, 4)
               d == read_value(f, c.pos)
               e == read_value(f, d.pos)
           IN  [max_records_count |-> from_le_bytes(a.buf),
                records_count     |-> from_le_bytes(b.buf),
                shift_threshold   |-> from_le_bytes(c.buf),
                min_value         |-> d.value,
                max_value         |-> e.value]
           : f \in {HandleFile(x, num)} })

\* BinaryReader::read_bool on the first byte of a prefix
read_bool(b) == IF b = 0 THEN [kind |-> "ok", value |-> FALSE]
                ELSE IF b = 1 THEN [kind |-> "ok", value |-> TRUE]
                ELSE [kind |-> "err"]

\* one slot read with the cursor at pos: the prefix, then the value
read_slot(f, pos, prefix_size) ==
    LET p      == file_read(f, pos, prefix_size)
        active == read_bool(p.buf[1])
        v      == read_value(f, p.pos)
    IN  IF active.kind = "err" THEN [kind |-> "err", pos |-> p.pos]
        ELSE [kind |-> "ok", pos |-> v.pos,
              ix |-> [active |-> active.value,
                      target |-> read_u64(SubSeq(p.buf, 2, 9)),
                      value  |-> v.value]]

\* read_offset
read_offset(x, num, offset) ==
    LET after_header_offset_position == Header_get_binary_size(u32_get_binary_size)
        offset_position == after_header_offset_position
                             + offset * compute_value_default_size.total_size
    IN  read_slot(HandleFile(x, num), offset_position, get_prefix_binary_size)

RECURSIVE read_all_loop(_, _, _, _)
\* the loop of read_all_indexes from slot i on, the cursor at pos
read_all_loop(f, pos, i, items) ==
    IF i >= max_records_count_per_fragments THEN [kind |-> "ok", items |-> items]
    ELSE LET s == read_slot(f, pos, compute_value_default_size.prefix_size)
         IN  IF s.kind = "err" THEN [kind |-> "err", items |-> <<>>]
             ELSE read_all_loop(f, s.pos, i + 1,
                                IF s.ix.active THEN Append(items, s.ix) ELSE items)

\* faulty variant: the slots are read from slot 0 on, whatever the offset
read_all_indexes_FromZero(x, num, offset) ==
    read_all_loop(HandleFile(x, num), Header_get_binary_size(u32_get_binary_size), 0, <<>>)

\* read_all_indexes
read_all_indexes(x, num, offset) ==
    LET after_header_offset_position == Header_get_binary_size(u32_get_binary_size)
        offset_position == after_header_offset_position
                             + offset * compute_value_default_size.total_size
    IN  read_all_loop(HandleFile(x, num), offset_position, offset, <<>>)

\* FenseIndex::new
FenseIndex_new(target, value) == [active |-> FALSE, target |-> target, value |-> value]

\* write_index_content
write_index_content(x0, num, ix, offset) ==
    Eval({ LET after_header_offset_position == Header_get_binary_size(u32_get_binary_size)
               offset_position == after_header_offset_position
                                    + offset * FenseIndex_get_binary_size(ix)
               content == << IF ix.active THEN 1 ELSE 0 >> \o write_u64(ix.target)
                            \o write_value(ix.value)
               slot == << x.handles[num + 1], offset >>
           IN  [SetHandleFile(x, num, file_write(HandleFile(x, num), offset_position, content))
                  EXCEPT !.written = [s \in DOMAIN x.written \cup {slot} |->
                                         IF s = slot THEN ix ELSE x.written[s]]]
           : x \in {x0} })

\* write_offset
write_offset(x0, num, ix, offset) ==
    Eval({ LET header == read_header(x, num)
               records_count == header.records_count + 1
               min_value == IF ix.value < header.min_value \/ default_value = header.min_value
                            THEN ix.value ELSE header.min_value
               max_value == IF ix.value > header.max_value \/ default_value = header.max_value
                            THEN ix.value ELSE header.max_value
           IN  write_header(write_index_content(x, num, ix, offset), num,
                            min_value, max_value, records_count)
           : x \in {x0} })

\* faulty variant: the target does not break ties
index_less_ValueOnly(a, b) == a.value < b.value

\* a.value.cmp(&b.value).then_with(|| a.target.cmp(&b.target)) is Less
index_less(a, b) == a.value < b.value \/ (a.value = b.value /\ a.target < b.target)

RECURSIVE reorder_write(_, _, _, _)
\* the loop of reorder_indexes: items[i + 1] goes to slot i
reorder_write(x, num, items, i) ==
    IF i >= Len(items) THEN x
    ELSE reorder_write(write_offset(x, num, items[i + 1], i), num, items, i + 1)

\* reorder_indexes
reorder_indexes(x0, num) ==
    Eval({ LET r == read_all_indexes(x, num, 0)
           IN  IF r.kind = "err" THEN [kind |-> "err", x |-> x]
               ELSE [kind |-> "ok",
                     x |-> reorder_write(x, num, SortSeq(r.items, index_less), 0)]
           : x \in {x0} })

\* clear_offset
clear_offset(x0, num, offset) ==
    Eval({ LET header == read_header(x, num)
               records_count == header.records_count - 1
               ix == [active |-> FALSE, target |-> 0, value |-> default_value]
           IN  write_header(write_index_content(x, num, ix, offset), num,
                            header.min_value, header.max_value, records_count)
           : x \in {x0} })

\* open_fragment
open_fragment(x0, num) ==
    Eval({ LET first_file_use == num \notin DOMAIN x.files
               record_size == get_prefix_binary_size + u32_get_binary_size
               header_size == Header_get_binary_size(u32_get_binary_size)
               initial_size == header_size + record_size * max_records_count_per_fragments
               pushed == [x EXCEPT !.handles = Append(x.handles, num)]
           IN  IF first_file_use
               THEN LET created == [pushed EXCEPT
                                       !.files = [k \in DOMAIN x.files \cup {num} |->
                                                     IF k = num THEN [i \in 1..initial_size |-> 0]
                                                     ELSE x.files[k]]]
                    IN  [write_header(created, num, default_value, default_value, 0)
                           EXCEPT !.fragment_count = @ + 1]
               ELSE pushed
           : x \in {x0} })

\* SortedIndexFiles::new on a folder without .ix files
SortedIndexFiles_new ==
    [files |-> << >>, handles |-> << >>, fragment_count |-> 0, written |-> << >>]

\* FileNumberAssignment
Specific(num) == [kind |-> "Specific", num |-> num]
NextAvailable == [kind |-> "NextAvailable", num |-> 0]
Split(num) == [kind |-> "Split", num |-> num]

RECURSIVE get_index_file_num_loop_Inclusive(_, _, _)
\* faulty variant: a value equal to min_value or max_value counts as in range
get_index_file_num_loop_Inclusive(x, ix, i) ==
    IF i >= Len(x.handles) THEN NextAvailable
    ELSE Eval({ LET value_is_in_range == ix.value >= header.min_value
                                           /\ ix.value <= header.max_value
                IN  IF header.records_count >= header.max_records_count /\ value_is_in_range
                    THEN Split(i)
                    ELSE IF header.min_value = default_value
                              /\ header.max_value = default_value
                    THEN Specific(i)
                    ELSE IF header.records_count < header.max_records_count
                    THEN Specific(i)
                    ELSE IF value_is_in_range
                    THEN Specific(i)
                    ELSE get_index_file_num_loop_Inclusive(x, ix, i + 1)
                : header \in {read_header(x, i)} })

RECURSIVE get_index_file_num_loop(_, _, _)
\* the loop of get_index_file_num_for_store from handle i on
get_index_file_num_loop(x, ix, i) ==
    IF i >= Len(x.handles) THEN NextAvailable
    ELSE Eval({ LET value_is_in_range == ix.value > header.min_value
                                           /\ ix.value < header.max_value
                IN  IF header.records_count >= header.max_records_count /\ value_is_in_range
                    THEN Split(i)
                    ELSE IF header.min_value = default_value
                              /\ header.max_value = default_value
                    THEN Specific(i)
                    ELSE IF header.records_count < header.max_records_count
                    THEN Specific(i)
                    ELSE IF value_is_in_range
                    THEN Specific(i)
                    ELSE get_index_file_num_loop(x, ix, i + 1)
                : header \in {read_header(x, i)} })

\* faulty variant: the Split test asks for more records than the fragment holds
returning_branch_Overfull(header, ix) ==
    LET value_is_in_range == ix.value > header.min_value /\ ix.value < header.max_value
    IN  IF header.records_count > header.max_records_count /\ value_is_in_range THEN 1
        ELSE IF header.min_value = default_value /\ header.max_value = default_value THEN 2
        ELSE IF header.records_count < header.max_records_count THEN 3
        ELSE IF value_is_in_range THEN 4
        ELSE 0

\* the body of the loop of get_index_file_num_for_store for one header: the
\* number of the if, in source order, that returns; 0 when none does and the
\* loop goes on
returning_branch(header, ix) ==
    LET value_is_in_range == ix.value > header.min_value /\ ix.value < header.max_value
    IN  IF header.records_count >= header.max_records_count /\ value_is_in_range THEN 1
        ELSE IF header.min_value = default_value /\ header.max_value = default_value THEN 2
        ELSE IF header.records_count < header.max_records_count THEN 3
        ELSE IF value_is_in_range THEN 4
        ELSE 0

\* SortedIndexTableFragment::get_index_file_num_for_store
get_index_file_num_for_store(x, ix) == get_index_file_num_loop(x, ix, 0)

RECURSIVE split_loop(_, _, _, _, _, _)
\* the loop of the Split branch of store from slot offset on.
\* s = [kind, x, next_fragment_min_value, next_fragment_max_value,
\*      next_fragment_records_count, old_fragment_records_count]
split_loop(s0, num, next_num, ix, offset, records_count) ==
    IF offset >= records_count \/ s0.kind = "err" THEN s0
    ELSE Eval({
           IF r.kind = "err" THEN [s EXCEPT !.kind = "err"]
           ELSE IF r.ix.value > ix.value
           THEN split_loop(
                  [kind |-> "ok",
                   x |-> clear_offset(
                           write_offset(s.x, next_num, r.ix, s.next_fragment_records_count),
                           num, offset),
                   next_fragment_min_value |->
                       IF r.ix.value # default_value
                            /\ s.next_fragment_min_value = default_value
                       THEN r.ix.value ELSE s.next_fragment_min_value,
                   next_fragment_max_value |->
                       IF r.ix.value # default_value
                            /\ r.ix.value > s.next_fragment_max_value
                       THEN r.ix.value ELSE s.next_fragment_max_value,
                   next_fragment_records_count |-> s.next_fragment_records_count + 1,
                   old_fragment_records_count |-> s.old_fragment_records_count - 1],
                  num, next_num, ix, offset + 1, records_count)
           ELSE split_loop(s, num, next_num, ix, offset + 1, records_count)
           : s \in {s0}, r \in {read_offset(s0.x, num, offset)} })

\* the Split(num) branch of store
store_split(x0, ix, num) ==
    Eval({ LET value_is_in_range == ix.value > header.min_value
                                      /\ ix.value < header.max_value
               next_num == x.fragment_count
           IN  IF ~ value_is_in_range THEN [kind |-> "err", x |-> x]
               ELSE Eval({
                      IF s.kind = "err" THEN [kind |-> "err", x |-> s.x]
                      ELSE Eval({ IF r.kind = "err" THEN r
                                  ELSE [kind |-> "ok",
                                        x |-> write_offset(r.x, num, ix,
                                                           s.old_fragment_records_count)]
                                  : r \in { reorder_indexes(
                                              write_header(
                                                write_header(s.x, num, header.min_value,
                                                             ix.value,
                                                             s.old_fragment_records_count),
                                                next_num, s.next_fragment_min_value,
                                                s.next_fragment_max_value,
                                                s.next_fragment_records_count),
                                              num) } })
                      : s \in { split_loop(
                                  [kind |-> "ok", x |-> open_fragment(x, next_num),
                                   next_fragment_min_value |-> default_value,
                                   next_fragment_max_value |-> default_value,
                                   next_fragment_records_count |-> 0,
                                   old_fragment_records_count |-> header.records_count],
                                  num, next_num, ix, 0, header.records_count) } })
           : x \in {x0}, header \in {read_header(x0, num)} })

\* SortedIndexFiles::store: the Result and the index after the call
store(x0, ix) ==
    Eval({ IF a.kind = "Specific"
           THEN [kind |-> "ok",
                 x |-> write_offset(x, a.num, ix, read_header(x, a.num).records_count)]
           ELSE IF a.kind = "NextAvailable"
           THEN [kind |-> "ok",
                 x |-> write_offset(open_fragment(x, x.fragment_count),
                                    x.fragment_count, ix, 0)]
           ELSE store_split(x, ix, a.num)
           : x \in {x0}, a \in {get_index_file_num_for_store(x0, ix)} })

(***************************************************************************)
(* SortedIndexFiles<String>: the same code with the String value writer    *)
(* and reader (default_string_writer, default_string_fixed_size_reader) of *)
(* width index_value_size, as the tests of sorted_index_table.rs build it. *)
(* A String is the sequence of its bytes (ASCII text: one byte per char).  *)
(* One fragment is opened; the operators take the bytes f of its file.     *)
(***************************************************************************)
\* the width given to default_string_writer and default_string_fixed_size_reader
index_value_size == 2

\* ' '
Space == 32

\* pad_or_truncate_string
pad_or_truncate_string(s, pad, len) == [i \in 1..len |-> IF i <= Len(s) THEN s[i] ELSE pad]

\* impl BinarySizeable for String
String_get_binary_size(s) == 8 + Len(s)

\* the default_value the tests give: the empty string padded to the width
default_value_String == pad_or_truncate_string(<<>>, Space, index_value_size)

RECURSIVE String_less(_, _)
\* a < b on String: byte-wise lexicographic
String_less(a, b) ==
    IF b = <<>> THEN FALSE
    ELSE IF a = <<>> THEN TRUE
    ELSE IF Head(a) # Head(b) THEN Head(a) < Head(b)
    ELSE String_less(Tail(a), Tail(b))

\* default_string_writer(index_value_size)
default_string_writer(v) ==
    LET padded == pad_or_truncate_string(v, Space, index_value_size)
    IN  write_u64(Len(padded)) \o padded

\* default_string_fixed_size_reader(index_value_size) with the cursor at pos
default_string_fixed_size_reader(f, pos) ==
    LET bl == file_read(f, pos, 8)
        read_bytes_count == bl.pos - pos
        text_len == read_u64(bl.buf)
        max_possible_len == Len(f) - pos
        buf == file_read(f, bl.pos, text_len)
    IN  IF read_bytes_count # 8 THEN [kind |-> "err", pos |-> bl.pos]
        ELSE IF text_len = 0
        THEN [kind |-> "ok", value |-> <<>>, pos |-> bl.pos + index_value_size]
        ELSE IF text_len # index_value_size THEN [kind |-> "err", pos |-> bl.pos]
        ELSE IF text_len > max_possible_len THEN [kind |-> "err", pos |-> bl.pos]
        ELSE IF buf.pos - bl.pos # text_len THEN [kind |-> "err", pos |-> buf.pos]
        ELSE [kind |-> "ok", value |-> buf.buf, pos |-> buf.pos]

\* the ValueDefaultSizeInfo of the callers' closure: the size of an entry
\* whose value is the empty string padded to the width
compute_value_default_size_String ==
    [prefix_size |-> get_prefix_binary_size,
     total_size  |-> get_prefix_binary_size
                       + String_get_binary_size(
                             pad_or_truncate_string(<<>>, Space, index_value_size))]

\* write_header on the file f
write_header_String(f, min_value, max_value, records_count) ==
    file_write(f, 0, to_le_bytes(max_records_count_per_fragments)
                       \o to_le_bytes(records_count)
                       \o to_le_bytes(shift_threshold)
                       \o default_string_writer(min_value)
                       \o default_string_writer(max_value))

\* read_header on the file f
read_header_String(f) ==
    LET a == file_read(f, 0, 4)
        b == file_read(f, a.pos, 4)
        c == file_read(f, b.pos, 4)
        d == default_string_fixed_size_reader(f, c.pos)
        e == default_string_fixed_size_reader(f, d.pos)
    IN  IF d.kind = "err" \/ e.kind = "err" THEN [kind |-> "err"]
        ELSE [kind |-> "ok",
              max_records_count |-> from_le_bytes(a.buf),
              records_count     |-> from_le_bytes(b.buf),
              shift_threshold   |-> from_le_bytes(c.buf),
              min_value         |-> d.value,
              max_value         |-> e.value]

\* read_offset on the file f
read_offset_String(f, offset) ==
    LET after_header_offset_position ==
            Header_get_binary_size(String_get_binary_size(default_value_String))
        offset_position == after_header_offset_position
                             + offset * compute_value_default_size_String.total_size
        p      == file_read(f, offset_position, get_prefix_binary_size)
        active == read_bool(p.buf[1])
        v      == default_string_fixed_size_reader(f, p.pos)
    IN  IF active.kind = "err" \/ v.kind = "err" THEN [kind |-> "err"]
        ELSE [kind |-> "ok",
              ix |-> [active |-> active.value,
                      target |-> read_u64(SubSeq(p.buf, 2, 9)),
                      value  |-> v.value]]

\* write_index_content on the file f
write_index_content_String(f, ix, offset) ==
    LET after_header_offset_position ==
            Header_get_binary_size(String_get_binary_size(default_value_String))
        index_size == get_prefix_binary_size + String_get_binary_size(ix.value)
        offset_position == after_header_offset_position + offset * index_size
        content == << IF ix.active THEN 1 ELSE 0 >> \o write_u64(ix.target)
                     \o default_string_writer(ix.value)
    IN  file_write(f, offset_position, content)

\* write_offset on the file f
write_offset_String(f, ix, offset) ==
    LET header == read_header_String(f)
    IN  IF header.kind = "err" THEN [kind |-> "err", f |-> f]
        ELSE LET records_count == header.records_count + 1
                 min_value == IF String_less(ix.value, header.min_value)
                                   \/ default_value_String = header.min_value
                              THEN ix.value ELSE header.min_value
                 max_value == IF String_less(header.max_value, ix.value)
                                   \/ default_value_String = header.max_value
                              THEN ix.value ELSE header.max_value
             IN  [kind |-> "ok",
                  f |-> write_header_String(write_index_content_String(f, ix, offset),
                                            min_value, max_value, records_count)]

\* open_fragment(0) on an empty folder: the bytes of the file created
open_fragment_String ==
    LET default_value_size == String_get_binary_size(default_value_String)
        record_size == get_prefix_binary_size + default_value_size
        header_size == Header_get_binary_size(default_value_size)
        initial_size == header_size + record_size * max_records_count_per_fragments
    IN  write_header_String([i \in 1..initial_size |-> 0],
                            default_value_String, default_value_String, 0)

(***************************************************************************)
(* binary.rs: BinaryWriter and BinaryReader.  A value is [t |-> the type,  *)
(* v |-> the value]; a String is the sequence of its chars (code points    *)
(* below 2048), an integer is itself.  A read returns [kind, value,        *)
(* position]: kind "ok", "err" (Err(..)) or "panic" (Bytes::slice out of   *)
(* range), position being where the cursor is left.                        *)
(***************************************************************************)
\* i32::to_be_bytes: two's complement, most significant byte first
i32_to_be_bytes(v) ==
    IF v >= 0 THEN write_u32(v)
    ELSE [i \in 1..4 |-> 255 - write_u32(-(v + 1))[i]]

\* i32::from_be_bytes
i32_from_be_bytes(bs) ==
    IF bs[1] < 128 THEN bs[1] * 16777216 + bs[2] * 65536 + bs[3] * 256 + bs[4]
    ELSE -((255 - bs[1]) * 16777216 + (255 - bs[2]) * 65536
             + (255 - bs[3]) * 256 + (255 - bs[4])) - 1

\* i64::to_be_bytes of a value that fits 32 bits: the sign fills the upper half
i64_to_be_bytes(v) ==
    (IF v >= 0 THEN <<0, 0, 0, 0>> ELSE <<255, 255, 255, 255>>) \o i32_to_be_bytes(v)

\* i64::from_be_bytes; a value that does not fit 32 bits saturates
i64_from_be_bytes(bs) ==
    IF SubSeq(bs, 1, 4) = <<0, 0, 0, 0>> /\ bs[5] < 128
    THEN i32_from_be_bytes(SubSeq(bs, 5, 8))
    ELSE IF SubSeq(bs, 1, 4) = <<255, 255, 255, 255>> /\ bs[5] >= 128
    THEN i32_from_be_bytes(SubSeq(bs, 5, 8))
    ELSE IF bs[1] < 128 THEN U64Huge ELSE -U64Huge

RECURSIVE as_bytes(_)
\* str::as_bytes: the UTF-8 encoding, one byte below 128, two below 2048
as_bytes(s) ==
    IF s = <<>> THEN <<>>
    ELSE (IF Head(s) < 128 THEN << Head(s) >>
          ELSE << 192 + (Head(s) \div 64), 128 + (Head(s) % 64) >>) \o as_bytes(Tail(s))

RECURSIVE from_utf8(_)
\* String::from_utf8 on bytes outside 224..244 (no three- or four-byte
\* sequence): [kind |-> "ok", s |-> the chars] or [kind |-> "err"]
from_utf8(bytes) ==
    IF bytes = <<>> THEN [kind |-> "ok", s |-> <<>>]
    ELSE IF Head(bytes) < 128
    THEN LET rest == from_utf8(Tail(bytes))
         IN  IF rest.kind = "err" THEN rest
             ELSE [kind |-> "ok", s |-> << Head(bytes) >> \o rest.s]
    ELSE IF Head(bytes) >= 194 /\ Head(bytes) <= 223 /\ Len(bytes) >= 2
            /\ bytes[2] >= 128 /\ bytes[2] <= 191
    THEN LET rest == from_utf8(Tail(Tail(bytes)))
         IN  IF rest.kind = "err" THEN rest
             ELSE [kind |-> "ok",
                   s |-> << (Head(bytes) - 192) * 64 + (bytes[2] - 128) >> \o rest.s]
    ELSE [kind |-> "err"]

\* BinaryWriter::with_capacity
BinaryWriter_with_capacity ==
    [phase |-> "write", buffer |-> <<>>, written |-> <<>>, position |-> 0, reads |-> <<>>]

\* faulty variant: the length prefix counts the chars, not the bytes
BinaryWriter_write_string_CharCount(value) == write_u64(Len(value)) \o as_bytes(value)

\* BinaryWriter::write_string: the bytes put into the buffer
BinaryWriter_write_string(value) == write_u64(Len(as_bytes(value))) \o as_bytes(value)

\* BinaryWriter::write_i32, write_u32, write_i64, write_u64, write_bool, write_u8
BinaryWriter_write(val) ==
    CASE val.t = "string" -> BinaryWriter_write_string(val.v)
      [] val.t = "i32"    -> i32_to_be_bytes(val.v)
      [] val.t = "u32"    -> write_u32(val.v)
      [] val.t = "i64"    -> i64_to_be_bytes(val.v)
      [] val.t = "u64"    -> write_u64(val.v)
      [] val.t = "bool"   -> << IF val.v THEN 1 ELSE 0 >>
      [] val.t = "u8"     -> << val.v >>

\* the length usize::from_be_bytes gives read_string with the cursor at
\* position: "small" with its value, "overflow" when position + len + 8
\* exceeds usize::MAX (positions below 248), "huge" otherwise
string_len(bl, position) ==
    IF SubSeq(bl, 1, 4) = <<0, 0, 0, 0>> /\ bl[5] < 128
    THEN [kind |-> "small", len |-> read_u64(bl)]
    ELSE IF SubSeq(bl, 1, 7) = <<255, 255, 255, 255, 255, 255, 255>>
            /\ bl[8] + position + 8 >= 256
    THEN [kind |-> "overflow", len |-> 0]
    ELSE [kind |-> "huge", len |-> 0]

\* BinaryReader::read_string.  position + len + 8 overflowing panics in a
\* debug build and wraps in a release build, where slice(pos_start..pos_end)
\* then panics: both are "panic".
BinaryReader_read_string(buffer, position) ==
    IF Len(buffer) <= position THEN [kind |-> "err", value |-> <<>>, position |-> position]
    ELSE IF position + 8 > Len(buffer)
    THEN [kind |-> "panic", value |-> <<>>, position |-> position]
    ELSE LET l == string_len(BytesAt(buffer, position, 8), position)
         IN  IF l.kind = "overflow"
             THEN [kind |-> "panic", value |-> <<>>, position |-> position]
             ELSE IF l.kind = "huge" \/ position + l.len + 8 > Len(buffer)
             THEN [kind |-> "err", value |-> <<>>, position |-> position]
             ELSE LET content == BytesAt(buffer, position + 8, l.len)
                      decoded == from_utf8(content)
                  IN  IF decoded.kind = "ok"
                      THEN [kind |-> "ok", value |-> decoded.s,
                            position |-> position + 8 + l.len]
                      ELSE [kind |-> "err", value |-> <<>>,
                            position |-> position + 8 + l.len]

\* the fixed-width reads read_i32, read_u32 (n = 4), read_i64, read_u64
\* (n = 8): Err when no byte is left, slice(position .. position + n) otherwise
BinaryReader_read_fixed(buffer, position, n) ==
    IF Len(buffer) <= position THEN [kind |-> "err", bytes |-> <<>>, position |-> position]
    ELSE IF position + n > Len(buffer)
    THEN [kind |-> "panic", bytes |-> <<>>, position |-> position]
    ELSE [kind |-> "ok", bytes |-> BytesAt(buffer, position, n), position |-> position + n]

\* BinaryReader::read_u8
BinaryReader_read_u8(buffer, position) ==
    IF Len(buffer) <= position THEN [kind |-> "err", value |-> 0, position |-> position]
    ELSE [kind |-> "ok", value |-> buffer[position + 1], position |-> position + 1]

\* BinaryReader::read_bool
BinaryReader_read_bool(buffer, position) ==
    IF Len(buffer) <= position THEN [kind |-> "err", value |-> FALSE, position |-> position]
    ELSE IF buffer[position + 1] = 0
    THEN [kind |-> "ok", value |-> FALSE, position |-> position + 1]
    ELSE IF buffer[position + 1] = 1
    THEN [kind |-> "ok", value |-> TRUE, position |-> position + 1]
    ELSE [kind |-> "err", value |-> FALSE, position |-> position]

\* BinaryReader::read_string, read_i32, read_u32, read_i64, read_u64,
\* read_bool, read_u8, by the type read
BinaryReader_read(t, buffer, position) ==
    CASE t = "string" -> BinaryReader_read_string(buffer, position)
      [] t = "bool"   -> BinaryReader_read_bool(buffer, position)
      [] t = "u8"     -> BinaryReader_read_u8(buffer, position)
      [] t \in {"i32", "u32", "i64", "u64"} ->
            LET r == BinaryReader_read_fixed(buffer, position,
                                             IF t \in {"i32", "u32"} THEN 4 ELSE 8)
            IN  [kind |-> r.kind, position |-> r.position,
                 value |-> IF r.kind # "ok" THEN 0
                           ELSE CASE t = "i32" -> i32_from_be_bytes(r.bytes)
                                  [] t = "u32" -> read_u32(r.bytes)
                                  [] t = "i64" -> i64_from_be_bytes(r.bytes)
                                  [] t = "u64" -> read_u64(r.bytes)]

(***************************************************************************)
(* binary_serializer.rs: the tagged encoding of a serde_json Value.  A     *)
(* Value is [t |-> "null" | "bool" | "int" | "text" | "array" | "object",  *)
(* v |-> its content]: the items of an array, the properties [k, v] of an  *)
(* object in the order of the Map (keys are unique and ascending).         *)
(***************************************************************************)
JNull == [t |-> "null", v |-> 0]
JBool(b) == [t |-> "bool", v |-> b]
JInt(n) == [t |-> "int", v |-> n]
JText(s) == [t |-> "text", v |-> s]
JArray(items) == [t |-> "array", v |-> items]
JObject(properties) == [t |-> "object", v |-> properties]

\* no document yet
NoDocument == [phase |-> "none", value |-> JNull, bytes |-> <<>>, tampered |-> FALSE,
               result |-> <<>>]

\* TypeFlag::to_bin
TypeFlag_to_bin(t) ==
    CASE t = "null" -> 0 [] t = "bool" -> 1 [] t = "int" -> 2 [] t = "float" -> 3
      [] t = "text" -> 4 [] t = "array" -> 5 [] t = "object" -> 6

\* TypeFlag::From
TypeFlag_From(n) ==
    CASE n = 0 -> [kind |-> "ok", t |-> "null"]
      [] n = 1 -> [kind |-> "ok", t |-> "bool"]
      [] n = 2 -> [kind |-> "ok", t |-> "int"]
      [] n = 3 -> [kind |-> "ok", t |-> "float"]
      [] n = 4 -> [kind |-> "ok", t |-> "text"]
      [] n = 5 -> [kind |-> "ok", t |-> "array"]
      [] n = 6 -> [kind |-> "ok", t |-> "object"]
      [] OTHER -> [kind |-> "err", t |-> ""]

RECURSIVE serialize_json_value(_), serialize_items(_), serialize_properties(_)
\* serialize_json_value: the bytes written for json
serialize_json_value(json) ==
    CASE json.t = "object" ->
            << TypeFlag_to_bin("object") >> \o write_u64(Len(json.v))
              \o serialize_properties(json.v)
      [] json.t = "null" -> << TypeFlag_to_bin("null") >>
      [] json.t = "bool" -> << TypeFlag_to_bin("bool") >> \o << IF json.v THEN 1 ELSE 0 >>
      [] json.t = "int"  -> << TypeFlag_to_bin("int") >> \o i64_to_be_bytes(json.v)
      [] json.t = "text" -> << TypeFlag_to_bin("text") >> \o BinaryWriter_write_string(json.v)
      [] json.t = "array" ->
            << TypeFlag_to_bin("array") >> \o write_u64(Len(json.v))
              \o serialize_items(json.v)

\* for item in a { serialize_json_value(item) }
serialize_items(items) ==
    IF items = <<>> THEN <<>>
    ELSE serialize_json_value(Head(items)) \o serialize_items(Tail(items))

\* for key in o.keys() { write_string(key); serialize_json_value(o[key]) }
serialize_properties(properties) ==
    IF properties = <<>> THEN <<>>
    ELSE BinaryWriter_write_string(Head(properties).k)
           \o serialize_json_value(Head(properties).v)
           \o serialize_properties(Tail(properties))

RECURSIVE Map_insert(_, _, _)
\* Map::insert: the value of an existing key is replaced, a new key is put
\* at its place in key order
Map_insert(properties, name, value) ==
    IF properties = <<>> THEN << [k |-> name, v |-> value] >>
    ELSE IF Head(properties).k = name
    THEN << [k |-> name, v |-> value] >> \o Tail(properties)
    ELSE IF String_less(name, Head(properties).k)
    THEN << [k |-> name, v |-> value] >> \o properties
    ELSE << Head(properties) >> \o Map_insert(Tail(properties), name, value)

\* a read that failed: Err(..) or a panic, the cursor where it was left
Failed(kind, position) == [kind |-> kind, value |-> JNull, position |-> position]

\* BinaryReader::read_f64: eight bytes are filled from a slice of four,
\* copy_from_slice panics on the length mismatch
BinaryReader_read_f64(buffer, position) ==
    IF Len(buffer) <= position THEN Failed("err", position)
    ELSE Failed("panic", position)

RECURSIVE BinarySerializer_read_value(_, _, _), read_items(_, _, _, _),
          read_json_object_properties(_, _), read_properties(_, _, _, _)
\* BinarySerializer_read_value(t, reader): [kind, value, position]
BinarySerializer_read_value(t, buffer, position) ==
    CASE t = "null" ->
            \* reader.read_bool(); the result is dropped
            [kind |-> "ok", value |-> JNull,
             position |-> BinaryReader_read_bool(buffer, position).position]
      [] t = "bool" ->
            LET r == BinaryReader_read_bool(buffer, position)
            IN  IF r.kind # "ok" THEN Failed(r.kind, r.position)
                ELSE [kind |-> "ok", value |-> JBool(r.value), position |-> r.position]
      [] t = "text" ->
            LET r == BinaryReader_read_string(buffer, position)
            IN  IF r.kind # "ok" THEN Failed(r.kind, r.position)
                ELSE [kind |-> "ok", value |-> JText(r.value), position |-> r.position]
      [] t = "int" ->
            LET r == BinaryReader_read("i64", buffer, position)
            IN  IF r.kind # "ok" THEN Failed(r.kind, r.position)
                ELSE [kind |-> "ok", value |-> JInt(r.value), position |-> r.position]
      [] t = "float" -> BinaryReader_read_f64(buffer, position)
      [] t = "array" ->
            LET r == BinaryReader_read("i64", buffer, position)
            IN  IF r.kind # "ok" THEN Failed(r.kind, r.position)
                ELSE read_items(buffer, r.position, r.value, <<>>)
      [] t = "object" -> read_json_object_properties(buffer, position)

\* for _ in 0..count { read_u8, TypeFlag::From, read_value, items.push }
read_items(buffer, position, count, items) ==
    IF count <= 0 THEN [kind |-> "ok", value |-> JArray(items), position |-> position]
    ELSE LET flag_data == BinaryReader_read_u8(buffer, position)
             flag == TypeFlag_From(flag_data.value)
         IN  IF flag_data.kind # "ok" THEN Failed(flag_data.kind, flag_data.position)
             ELSE IF flag.kind # "ok" THEN Failed("err", flag_data.position)
             ELSE LET value == BinarySerializer_read_value(flag.t, buffer, flag_data.position)
                  IN  IF value.kind # "ok" THEN value
                      ELSE read_items(buffer, value.position, count - 1,
                                      Append(items, value.value))

\* read_json_object_properties
read_json_object_properties(buffer, position) ==
    LET property_count == BinaryReader_read("u64", buffer, position)
    IN  IF property_count.kind # "ok" THEN Failed(property_count.kind, property_count.position)
        ELSE read_properties(buffer, property_count.position, property_count.value, <<>>)

\* for _ in 0..property_count { read_string, read_u8, TypeFlag::From,
\* read_value, properties.insert }
read_properties(buffer, position, count, properties) ==
    IF count <= 0 THEN [kind |-> "ok", value |-> JObject(properties), position |-> position]
    ELSE LET name == BinaryReader_read_string(buffer, position)
             flag_data == BinaryReader_read_u8(buffer, name.position)
             flag == TypeFlag_From(flag_data.value)
         IN  IF name.kind # "ok" THEN Failed(name.kind, name.position)
             ELSE IF flag_data.kind # "ok" THEN Failed(flag_data.kind, flag_data.position)
             ELSE IF flag.kind # "ok" THEN Failed("err", flag_data.position)
             ELSE LET value == BinarySerializer_read_value(flag.t, buffer, flag_data.position)
                  IN  IF value.kind # "ok" THEN value
                      ELSE read_properties(buffer, value.position, count - 1,
                                           Map_insert(properties, name.value, value.value))

\* read_json_object: the flag byte is read and converted, then the properties
read_json_object(buffer, position) ==
    LET flag_data == BinaryReader_read_u8(buffer, position)
        flag == TypeFlag_From(flag_data.value)
    IN  IF flag_data.kind # "ok" THEN Failed(flag_data.kind, flag_data.position)
        ELSE IF flag.kind # "ok" THEN Failed("err", flag_data.position)
        ELSE read_json_object_properties(buffer, flag_data.position)

\* deserialize_json
deserialize_json(src) == read_json_object(src, 0)

(***************************************************************************)
(* document.rs: get_property_value on a serde_json Value (the Values of    *)
(* binary_serializer.rs above); a path is the sequence of its chars.       *)
(***************************************************************************)
\* '.'
Dot == 46

RECURSIVE split(_, _)
\* path.split('.'): the parts between the dots, empty parts included
split(path, part) ==
    IF path = <<>> THEN << part >>
    ELSE IF Head(path) = Dot THEN << part >> \o split(Tail(path), <<>>)
    ELSE split(Tail(path), Append(part, Head(path)))

RECURSIVE Value_index(_, _, _)
\* &v[part] (impl Index<&str> for Value): the member of an object that has
\* one of that name, Value::Null for every other value; i is the property looked at
Value_index(v, part, i) ==
    IF v.t # "object" \/ i > Len(v.v) THEN JNull
    ELSE IF v.v[i].k = part THEN v.v[i].v
    ELSE Value_index(v, part, i + 1)

RECURSIVE match_property_level_NullKept(_, _)
\* faulty variant: a member that is null is kept
match_property_level_NullKept(current_level, part) ==
    IF current_level = <<>> THEN <<>>
    ELSE (IF Head(current_level).t = "array"
          THEN match_property_level_NullKept(Head(current_level).v, part)
          ELSE << Value_index(Head(current_level), part, 1) >>)
           \o match_property_level_NullKept(Tail(current_level), part)

RECURSIVE match_property_level(_, _)
\* match_property_level: each value of current_level mapped to a list, the
\* lists flattened.  For an array the lists of match_property_level([l], part)
\* of its items l, flattened, which is match_property_level(items, part).
match_property_level(current_level, part) ==
    IF current_level = <<>> THEN <<>>
    ELSE (IF Head(current_level).t = "array"
          THEN match_property_level(Head(current_level).v, part)
          ELSE IF Value_index(Head(current_level), part, 1).t = "null" THEN <<>>
          ELSE << Value_index(Head(current_level), part, 1) >>)
           \o match_property_level(Tail(current_level), part)

RECURSIVE fold_parts(_, _)
\* parts.iter().fold(init, |current_level, part| match_property_level(current_level, part))
fold_parts(current_level, parts) ==
    IF parts = <<>> THEN current_level
    ELSE fold_parts(match_property_level(current_level, Head(parts)), Tail(parts))

\* get_property_value
get_property_value(v, path) == fold_parts(<< v >>, split(path, <<>>))

\* no get_property_value call yet
NoLookup == [phase |-> "none", value |-> JNull, path |-> <<>>, result |-> <<>>]

(***************************************************************************)
(* The state machine: one DiskWriter on a fresh log file and one           *)
(* DiskReader on the same file.  A writer call is split where its data     *)
(* has been written and synced and its header write is still to come, so   *)
(* that the state a crash or another handle can see there is a state of    *)
(* the model.                                                              *)
(***************************************************************************)
VARIABLES
    file,       \* the bytes of the log file
    wcursor,    \* the cursor of the writer's file handle
    wmeta,      \* DiskWriter.meta
    wpage,      \* DiskWriter.page_size
    durable,    \* the bytes of the file as of the last sync_all
    wpc,        \* "idle", or the call whose data is written: "add_data", "bulk_data"
    wcall,      \* <<>> or <<the running call>>
    appended,   \* history: the contents the header has been made to cover
    shape,      \* history: "fresh", "adds" (add_record calls only),
                \*          "bulk1" (one bulk_add_records call only), "mixed"
    lastRet,    \* history: <<>> or <<the add_record call that returned last>>
    reopened,   \* history: the DiskWriter::new calls made on the existing log
    rstate,     \* "closed", "open", "panicked"
    rmeta,      \* DiskReader.meta
    rcursor,    \* the cursor of the reader's file handle
    rout,       \* history: what next() returned, in order
    rfind,      \* history: <<>> or <<the last find_record call and its result>>
    rsnap,      \* history: Len(appended) when the reader was opened
    bad,        \* history: the ordinals of the records altered on disk
    ix_files,   \* the .ix files of the index folder: fragment number -> bytes
    write_handles,  \* SortedIndexFiles.write_handles: the fragment number of each handle
    fragment_count, \* SortedIndexFiles.fragment_count
    written,    \* history: the FenseIndex last written to each <<fragment number, slot>>
    stored,     \* history: the entries handed to the store calls that returned Ok
    iops,       \* history: the number of calls made on the index
    iused,      \* history: the kinds of calls made on the index
    ilast,      \* history: the last call made on the index
    sx,         \* one SortedIndexFiles<String> and the last call made on it
    bin,        \* one BinaryWriter, the BinaryReader made from its buffer, the calls made
    json,       \* one document, its encoding and the result of decoding it
    doc         \* one document, a path and the result of get_property_value

wvars == <<file, wcursor, wmeta, wpage, durable, wpc, wcall, appended, shape, lastRet,
           reopened>>
rvars == <<rstate, rmeta, rcursor, rout, rfind, rsnap>>
ivars == <<ix_files, write_handles, fragment_count, written, stored, iops, iused, ilast>>
pvars == <<sx, bin, json, doc>>
vars == <<wvars, rvars, bad, ivars, pvars>>

W == [file |-> file, cursor |-> wcursor, meta |-> wmeta, page_size |-> wpage,
      durable |-> durable]

SetW(w) ==
    /\ file' = w.file
    /\ wcursor' = w.cursor
    /\ wmeta' = w.meta
    /\ wpage' = w.page_size
    /\ durable' = w.durable

X == [files |-> ix_files, handles |-> write_handles, fragment_count |-> fragment_count,
      written |-> written]

SetX(x) ==
    /\ ix_files' = x.files
    /\ write_handles' = x.handles
    /\ fragment_count' = x.fragment_count
    /\ written' = x.written

\* the active entries of the slots 0..max_records_count_per_fragments - 1 of
\* the fragment behind handle num, with their slots, in slot order
RECURSIVE ActiveFrom(_, _, _)
ActiveFrom(x, num, i) ==
    IF i >= max_records_count_per_fragments THEN <<>>
    ELSE LET r == read_offset(x, num, i)
         IN  (IF r.kind = "ok" /\ r.ix.active THEN << [slot |-> i, ix |-> r.ix] >> ELSE <<>>)
               \o ActiveFrom(x, num, i + 1)

NoCall == [op |-> "none", num |-> 0, kind |-> "", result |-> "ok", before |-> <<>>]

\* the log and the index as they are created: DiskWriter::new on a new file,
\* SortedIndexFiles::new on an empty folder followed by open_fragment(0)
Init ==
    /\ \E page_size \in PageSizes :
          LET w == new(page_size)
          IN  /\ file = w.file
              /\ wcursor = w.cursor
              /\ wmeta = w.meta
              /\ wpage = w.page_size
              /\ durable = w.durable
    /\ wpc = "idle"
    /\ wcall = <<>>
    /\ appended = <<>>
    /\ shape = "fresh"
    /\ lastRet = <<>>
    /\ reopened = <<>>
    /\ rstate = "closed"
    /\ rmeta = empty_with_page_size(0)
    /\ rcursor = 0
    /\ rout = <<>>
    /\ rfind = <<>>
    /\ rsnap = 0
    /\ bad = {}
    /\ LET x == open_fragment(SortedIndexFiles_new, 0)
       IN  /\ ix_files = x.files
           /\ write_handles = x.handles
           /\ fragment_count = x.fragment_count
           /\ written = x.written
    /\ stored = <<>>
    /\ iops = 0
    /\ iused = {}
    /\ ilast = NoCall
    /\ sx = [file |-> open_fragment_String, ops |-> 0, last |-> <<>>]
    /\ bin = BinaryWriter_with_capacity
    /\ json = NoDocument
    /\ doc = NoLookup

\* add_record(buf) up to the sync_all that follows the write of the record
AddRecord(buf) ==
    /\ wpc = "idle"
    /\ Len(appended) + 1 <= MaxRecords
    /\ SetW(write_record_data(W, MakeRecord(wmeta.position, buf)))
    /\ wcall' = << [kind |-> "add", buffers |-> <<buf>>, ret |-> record_position(W),
                    before |-> read_metadata(file).position] >>
    /\ wpc' = "add_data"
    /\ lastRet' = <<>>
    /\ UNCHANGED <<appended, shape, reopened, rvars, bad, ivars, pvars>>

\* the rest of add_record: the meta is updated, the header rewritten and
\* synced, and record_position returned
AddRecordMeta ==
    /\ wpc = "add_data"
    /\ SetW(write_record_meta(W, MakeRecord(wmeta.position, wcall[1].buffers[1])))
    /\ appended' = appended \o wcall[1].buffers
    /\ shape' = IF shape \in {"fresh", "adds"} THEN "adds" ELSE "mixed"
    /\ lastRet' = wcall
    /\ wcall' = <<>>
    /\ wpc' = "idle"
    /\ UNCHANGED <<reopened, rvars, bad, ivars, pvars>>

\* bulk_add_records(buffers) up to the write of the batch
BulkAddRecords(buffers) ==
    /\ wpc = "idle"
    /\ Len(appended) + Len(buffers) <= MaxRecords
    /\ SetW(bulk_add_records_data(W, buffers))
    /\ wcall' = << [kind |-> "bulk", buffers |-> buffers, ret |-> 0,
                    before |-> read_metadata(file).position] >>
    /\ wpc' = "bulk_data"
    /\ lastRet' = <<>>
    /\ UNCHANGED <<appended, shape, reopened, rvars, bad, ivars, pvars>>

\* the rest of bulk_add_records: update_meta_and_fsync
BulkMeta ==
    /\ wpc = "bulk_data"
    /\ SetW(bulk_add_records_meta(W, wcall[1].buffers))
    /\ appended' = appended \o wcall[1].buffers
    /\ shape' = IF shape = "fresh" THEN "bulk1" ELSE "mixed"
    /\ wcall' = <<>>
    /\ wpc' = "idle"
    /\ UNCHANGED <<lastRet, reopened, rvars, bad, ivars, pvars>>

\* DiskWriter::new(path, page_size) on the existing log, the former writer
\* being dropped between two calls.  stored: the header found in the file;
\* untouched: the call left the length and the bytes of the file as they were.
Reopen(page_size) ==
    /\ wpc = "idle"
    /\ Len(reopened) < MaxReopen
    /\ LET res == new_existing(W, page_size)
       IN  /\ SetW(res.w)
           /\ reopened' = Append(reopened,
                                 [page_size |-> page_size,
                                  stored    |-> read_metadata(file),
                                  kind      |-> res.kind,
                                  untouched |-> res.w.file = file])
    /\ lastRet' = <<>>
    /\ UNCHANGED <<wpc, wcall, appended, shape, rvars, bad, ivars, pvars>>

\* DiskReader::new: the header is read once, the cursor is left behind it
ReaderNew ==
    /\ rstate = "closed"
    /\ rstate' = "open"
    /\ rmeta' = read_metadata(file)
    /\ rcursor' = RecordsFileMeta_size
    /\ rsnap' = Len(appended)
    /\ UNCHANGED <<wvars, rout, rfind, bad, ivars, pvars>>

\* Iterator::next.  A call that finds the cursor at the snapshot position
\* right after a None changes nothing and is left out.
ReaderNext ==
    /\ rstate = "open"
    /\ rfind = <<>>
    /\ ~ (rcursor >= rmeta.position /\ rout # <<>> /\ rout[Len(rout)] = None)
    /\ LET res == next(file, rcursor, rmeta, DefaultMaxRecordSize)
       IN  /\ rcursor' = res.cursor
           /\ IF res.item.kind = "panic"
              THEN rstate' = "panicked" /\ rout' = rout
              ELSE rstate' = rstate /\ rout' = Append(rout, res.item)
    /\ UNCHANGED <<wvars, rmeta, rfind, rsnap, bad, ivars, pvars>>

\* find_record(f); in a behaviour of the model the reader is not iterated
\* any more once find_record has been used.  moved: the cursor was not at
\* the first record when find_record was called.
ReaderFind(pred) ==
    /\ rstate = "open"
    /\ LET res == find_record(file, rcursor, rmeta, DefaultMaxRecordSize, pred)
       IN  /\ rcursor' = res.cursor
           /\ IF res.item.kind = "panic"
              THEN rstate' = "panicked" /\ rfind' = rfind
              ELSE rstate' = rstate
                   /\ rfind' = << [pred |-> pred, item |-> res.item,
                                   moved |-> rcursor # RecordsFileMeta_size] >>
    /\ UNCHANGED <<wvars, rmeta, rout, rsnap, bad, ivars, pvars>>

\* The writer fills the log, then the reader is opened and used.
Next ==
    \/ \E buf \in Buffers : rstate = "closed" /\ AddRecord(buf)
    \/ AddRecordMeta
    \/ \E buffers \in SeqsUpTo(Buffers, MaxBulk) : rstate = "closed" /\ BulkAddRecords(buffers)
    \/ BulkMeta
    \/ wpc = "idle" /\ ReaderNew
    \/ ReaderNext
    \/ \E pred \in Predicates : ReaderFind(pred)

Spec == Init /\ [][Next]_vars

(***************************************************************************)
(* The log with a fault of the medium: once the writer has filled the log  *)
(* and before the reader is opened, the content of up to MaxCorrupt        *)
(* records is altered on disk (one bit of one content byte is flipped).    *)
(* The reader is then opened and iterated.                                 *)
(***************************************************************************)
RECURSIVE SumSizes(_)
\* the bytes the records of the contents bufs take: sum of 13 + |b|
SumSizes(bufs) == IF bufs = <<>> THEN 0 ELSE 13 + Len(Head(bufs)) + SumSizes(Tail(bufs))

\* where the k-th record starts
RecordOffset(k) == 32 + SumSizes(SubSeq(appended, 1, k - 1))

FlipLowBit(b) == IF b % 2 = 0 THEN b + 1 ELSE b - 1

Corrupt(k, i) ==
    /\ rstate = "closed"
    /\ k \notin bad
    /\ Cardinality(bad) < MaxCorrupt
    /\ file' = [file EXCEPT ![RecordOffset(k) + 12 + i] = FlipLowBit(@)]
    /\ bad' = bad \cup {k}
    /\ UNCHANGED <<wcursor, wmeta, wpage, durable, wpc, wcall, appended, shape, lastRet,
                   reopened, rvars, ivars, pvars>>

NextCorrupt ==
    \/ \E buf \in Buffers : rstate = "closed" /\ bad = {} /\ AddRecord(buf)
    \/ AddRecordMeta
    \/ \E buffers \in SeqsUpTo(Buffers, MaxBulk) :
          rstate = "closed" /\ bad = {} /\ BulkAddRecords(buffers)
    \/ BulkMeta
    \/ \E k \in 1..Len(appended) : \E i \in 1..Len(appended[k]) :
          wpc = "idle" /\ Corrupt(k, i)
    \/ wpc = "idle" /\ ReaderNew
    \/ ReaderNext

SpecCorrupt == Init /\ [][NextCorrupt]_vars

(***************************************************************************)
(* The log written by two writers in turn: a writer appends, is dropped    *)
(* between two calls, and DiskWriter::new is called again on the same path *)
(* with any page_size; the new writer goes on appending.                   *)
(***************************************************************************)
NextReopen ==
    \/ \E buf \in Buffers : AddRecord(buf)
    \/ AddRecordMeta
    \/ \E buffers \in SeqsUpTo(Buffers, MaxBulk) : BulkAddRecords(buffers)
    \/ BulkMeta
    \/ \E page_size \in PageSizes : Reopen(page_size)

SpecReopen == Init /\ [][NextReopen]_vars

(***************************************************************************)
(* The writer and one reader at the same time: the reader is opened at any *)
(* moment, between two steps of a writer call included, and the writer     *)
(* goes on appending while the reader iterates.                            *)
(***************************************************************************)
NextConcurrent ==
    \/ \E buf \in Buffers : AddRecord(buf)
    \/ AddRecordMeta
    \/ \E buffers \in SeqsUpTo(Buffers, MaxBulk) : BulkAddRecords(buffers)
    \/ BulkMeta
    \/ ReaderNew
    \/ ReaderNext

SpecConcurrent == Init /\ [][NextConcurrent]_vars

(***************************************************************************)
(* The sorted index: calls on one SortedIndexFiles<u32>, created on an     *)
(* empty folder with fragment 0 opened.  The entry of a call takes the     *)
(* ordinal of the call as its target.                                      *)
(***************************************************************************)
Entry(value) == [active |-> TRUE, target |-> iops + 1, value |-> value]

\* store(ix).  before: the active slots the fragment that is split had
\* when the call was made; header: the header of the chosen fragment then
Store(value) ==
    /\ \E r \in {store(X, Entry(value))} :
       \E a \in {get_index_file_num_for_store(X, Entry(value))} :
          /\ SetX(r.x)
          /\ stored' = IF r.kind = "ok" THEN Append(stored, Entry(value)) ELSE stored
          /\ ilast' = [op |-> "store", num |-> a.num, kind |-> a.kind,
                       result |-> r.kind,
                       before |-> IF a.kind = "Split" THEN ActiveFrom(X, a.num, 0)
                                  ELSE <<>>,
                       header |-> read_header(X, a.num)]
    /\ iops' = iops + 1
    /\ iused' = iused \cup {"store"}
    /\ UNCHANGED <<wvars, rvars, bad, pvars>>

\* append_fragment()
AppendFragment ==
    /\ SetX(open_fragment(X, fragment_count))
    /\ ilast' = [op |-> "append", num |-> fragment_count, kind |-> "",
                 result |-> "ok", before |-> <<>>]
    /\ iops' = iops + 1
    /\ iused' = iused \cup {"append"}
    /\ UNCHANGED <<stored, wvars, rvars, bad, pvars>>

\* write_offset(num, ix, offset) on an open fragment, offset a slot of the fragment
WriteOffset(num, value, offset) ==
    /\ SetX(write_offset(X, num, Entry(value), offset))
    /\ ilast' = [op |-> "write", num |-> num, kind |-> "", result |-> "ok",
                 before |-> <<>>]
    /\ iops' = iops + 1
    /\ iused' = iused \cup {"write"}
    /\ UNCHANGED <<stored, wvars, rvars, bad, pvars>>

\* clear_offset(num, offset) on an open fragment whose header counts at
\* least one record (header.records_count - 1 does not overflow)
ClearOffset(num, offset) ==
    /\ read_header(X, num).records_count > 0
    /\ SetX(clear_offset(X, num, offset))
    /\ ilast' = [op |-> "clear", num |-> num, kind |-> "", result |-> "ok",
                 before |-> <<>>]
    /\ iops' = iops + 1
    /\ iused' = iused \cup {"clear"}
    /\ UNCHANGED <<stored, wvars, rvars, bad, pvars>>

\* reorder_indexes(num) on an open fragment.  before: the active slots the
\* fragment had when the call was made
ReorderIndexes(num) ==
    /\ \E r \in {reorder_indexes(X, num)} :
          /\ SetX(r.x)
          /\ ilast' = [op |-> "reorder", num |-> num, kind |-> "", result |-> r.kind,
                       before |-> ActiveFrom(X, num, 0)]
    /\ iops' = iops + 1
    /\ iused' = iused \cup {"reorder"}
    /\ UNCHANGED <<stored, wvars, rvars, bad, pvars>>

\* the handles of the open fragments
Handles == 0..(Len(write_handles) - 1)

\* the slots of a fragment
Slots == 0..(max_records_count_per_fragments - 1)

InitIndex == Init /\ wpage = 64

\* entries are stored one after the other, as in
\* should_create_new_file_when_is_more_records_than_max_records_count_per_fragment
NextStore ==
    \E value \in StoreValues : iops < MaxStores /\ Store(value)

SpecStore == InitIndex /\ [][NextStore]_vars

\* any calls on the index
NextIndex ==
    \/ \E value \in IndexValues : iops < MaxIndexOps /\ Store(value)
    \/ iops < MaxIndexOps /\ AppendFragment
    \/ \E num \in Handles : \E value \in IndexValues : \E offset \in Slots :
          iops < MaxIndexOps /\ WriteOffset(num, value, offset)
    \/ \E num \in Handles : \E offset \in Slots :
          iops < MaxIndexOps /\ ClearOffset(num, offset)
    \/ \E num \in Handles : iops < MaxIndexOps /\ ReorderIndexes(num)

SpecIndex == InitIndex /\ [][NextIndex]_vars


(***************************************************************************)
(* One slot written and read back: write_offset calls on the open fragment *)
(* of a SortedIndexFiles<String>, the value of the entry being any string  *)
(* of up to MaxValueLen characters, as the caller hands it over.           *)
(***************************************************************************)
\* the strings over 'a', 'b' of up to MaxValueLen characters
StringValues == SeqsUpTo({97, 98}, MaxValueLen)

\* write_offset(0, ix, offset) on the String index, offset a slot of the fragment
WriteOffsetString(value, offset) ==
    /\ \E ix \in {[active |-> TRUE, target |-> sx.ops + 1, value |-> value]} :
       \E r \in {write_offset_String(sx.file, ix, offset)} :
          sx' = [file |-> r.f, ops |-> sx.ops + 1,
                 last |-> << [ix |-> ix, offset |-> offset, kind |-> r.kind,
                              before |-> sx.file] >>]
    /\ UNCHANGED <<wvars, rvars, bad, ivars, bin, json, doc>>

NextSlot ==
    \E value \in StringValues : \E offset \in Slots :
        sx.ops < MaxSlotWrites /\ WriteOffsetString(value, offset)

SpecSlot == InitIndex /\ [][NextSlot]_vars

(***************************************************************************)
(* Fragments opened in any order: open_fragment(num) for any num, on a     *)
(* file that exists or not, write_offset on the open handles, and          *)
(* SortedIndexFiles::new called again on the folder (the former object     *)
(* dropped).  A call that panics ends the behaviour.                       *)
(***************************************************************************)
\* the num arguments of open_fragment
FragmentNumbers == 0..2

\* SortedIndexFiles::new on the folder as it is: no handle is open,
\* fragment_count is the number of .ix files
SortedIndexFiles_new_existing(x) ==
    [x EXCEPT !.handles = << >>, !.fragment_count = Cardinality(DOMAIN x.files)]

\* open_fragment(num).  On a new file the handle is pushed and write_header
\* indexes write_handles[num]: the call panics when num is not below the
\* number of handles, the file created and sized but without header.
OpenFragment(num) ==
    /\ IF num \notin DOMAIN ix_files /\ num > Len(write_handles)
       THEN /\ ix_files' = [k \in DOMAIN ix_files \cup {num} |->
                               IF k = num
                               THEN [i \in 1..(Header_get_binary_size(u32_get_binary_size)
                                                + (get_prefix_binary_size + u32_get_binary_size)
                                                    * max_records_count_per_fragments) |-> 0]
                               ELSE ix_files[k]]
            /\ write_handles' = Append(write_handles, num)
            /\ UNCHANGED <<fragment_count, written>>
       ELSE SetX(open_fragment(X, num))
    /\ ilast' = [op |-> "open", num |-> num, kind |-> "",
                 result |-> IF num \notin DOMAIN ix_files /\ num > Len(write_handles)
                            THEN "panic" ELSE "ok",
                 before |-> <<>>,
                 existed |-> num \in DOMAIN ix_files,
                 files |-> ix_files,
                 count |-> fragment_count]
    /\ iops' = iops + 1
    /\ iused' = iused \cup {"open"}
    /\ UNCHANGED <<stored, wvars, rvars, bad, pvars>>

\* the index object is dropped and SortedIndexFiles::new called on the folder
Restart ==
    /\ SetX(SortedIndexFiles_new_existing(X))
    /\ ilast' = [op |-> "new", num |-> 0, kind |-> "", result |-> "ok", before |-> <<>>]
    /\ iops' = iops + 1
    /\ iused' = iused \cup {"new"}
    /\ UNCHANGED <<stored, wvars, rvars, bad, pvars>>

NextOpen ==
    \/ \E num \in FragmentNumbers :
          iops < MaxIndexOps /\ ilast.result # "panic" /\ OpenFragment(num)
    \/ \E num \in Handles : \E value \in IndexValues : \E offset \in Slots :
          iops < MaxIndexOps /\ ilast.result # "panic" /\ WriteOffset(num, value, offset)
    \/ iops < MaxIndexOps /\ ilast.result # "panic" /\ Restart

SpecOpen == InitIndex /\ [][NextOpen]_vars

(***************************************************************************)
(* One BinaryWriter filled with values, then one BinaryReader made from    *)
(* its buffer and read.  In SpecBinary the values are read back in the     *)
(* order and with the types they were written, then one more read of any   *)
(* type is made; in SpecBinaryAny reads of any type are made in any order. *)
(* A read that panics ends the behaviour.                                  *)
(***************************************************************************)
\* the values written (a list: values of different types are not compared)
BinaryValues ==
    << [t |-> "string", v |-> <<>>], [t |-> "string", v |-> <<97, 233>>],
      [t |-> "i32", v |-> -2], [t |-> "i32", v |-> 258],
      [t |-> "u32", v |-> 65537],
      [t |-> "i64", v |-> -1], [t |-> "i64", v |-> 3],
      [t |-> "u64", v |-> 1],
      [t |-> "bool", v |-> TRUE], [t |-> "bool", v |-> FALSE],
      [t |-> "u8", v |-> 128] >>

\* the types a read can ask for
BinaryTypes == {"string", "i32", "u32", "i64", "u64", "bool", "u8"}

\* one write_* call on the writer
BinaryWrite(val) ==
    /\ bin.phase = "write"
    /\ bin' = [bin EXCEPT !.buffer = bin.buffer \o BinaryWriter_write(val),
                          !.written = Append(bin.written, val)]
    /\ UNCHANGED <<wvars, rvars, bad, ivars, sx, json, doc>>

\* BinaryReader::from(wr.buffer)
BinaryReaderFrom ==
    /\ bin.phase = "write"
    /\ bin' = [bin EXCEPT !.phase = "read", !.position = 0]
    /\ UNCHANGED <<wvars, rvars, bad, ivars, sx, json, doc>>

\* one read_* call on the reader
BinaryRead(t) ==
    /\ bin.phase = "read"
    /\ \E r \in {BinaryReader_read(t, bin.buffer, bin.position)} :
          bin' = [bin EXCEPT
                    !.phase = IF r.kind = "panic" THEN "panicked" ELSE "read",
                    !.position = r.position,
                    !.reads = Append(bin.reads,
                                     [t |-> t, kind |-> r.kind, value |-> r.value,
                                      before |-> bin.position, after |-> r.position])]
    /\ UNCHANGED <<wvars, rvars, bad, ivars, sx, json, doc>>

NextBinary ==
    \/ \E i \in 1..Len(BinaryValues) :
          Len(bin.written) < MaxWrites /\ BinaryWrite(BinaryValues[i])
    \/ BinaryReaderFrom
    \/ \E t \in BinaryTypes :
          /\ Len(bin.reads) <= Len(bin.written)
          /\ Len(bin.reads) < Len(bin.written) => t = bin.written[Len(bin.reads) + 1].t
          /\ BinaryRead(t)

SpecBinary == InitIndex /\ [][NextBinary]_vars

NextBinaryAny ==
    \/ \E i \in 1..Len(BinaryValues) :
          Len(bin.written) < MaxAnyCalls /\ BinaryWrite(BinaryValues[i])
    \/ BinaryReaderFrom
    \/ \E t \in BinaryTypes : Len(bin.reads) < MaxAnyCalls /\ BinaryRead(t)

SpecBinaryAny == InitIndex /\ [][NextBinaryAny]_vars

(***************************************************************************)
(* One document encoded and decoded: a top-level object is built, encoded  *)
(* by serialize_json_value, its first byte possibly replaced by another    *)
(* one, and the bytes are decoded by deserialize_json.                     *)
(***************************************************************************)
\* the values without content of their own
Leaves == << JNull, JBool(TRUE), JInt(-1), JText(<<97>>) >>

\* lists of up to MaxItems leaves, as indexes into Leaves
LeafLists == SeqsUpTo(1..Len(Leaves), MaxItems)

\* what a property of the top-level object holds: a leaf, an array of
\* leaves, or an object whose properties "x", "y", .. hold leaves
PropertyCodes ==
    { <<"leaf", <<i>> >> : i \in 1..Len(Leaves) }
      \cup { <<"array", s>> : s \in LeafLists }
      \cup { <<"object", s>> : s \in LeafLists }

\* the value a code stands for
CodeValue(code) ==
    CASE code[1] = "leaf" -> Leaves[code[2][1]]
      [] code[1] = "array" -> JArray([i \in 1..Len(code[2]) |-> Leaves[code[2][i]]])
      [] code[1] = "object" ->
            JObject([i \in 1..Len(code[2]) |-> [k |-> << 119 + i >>, v |-> Leaves[code[2][i]]]])

\* the top-level object with the properties "a", "b", .. holding the values of codes
Document(codes) ==
    JObject([i \in 1..Len(codes) |-> [k |-> << 96 + i >>, v |-> CodeValue(codes[i])]])

\* a document is parsed from its text (serde_json::from_str)
JsonBuild(codes) ==
    /\ json.phase = "none"
    /\ json' = [json EXCEPT !.phase = "built", !.value = Document(codes)]
    /\ UNCHANGED <<wvars, rvars, bad, ivars, sx, bin, doc>>

\* serialize_json_value on the document
JsonSerialize ==
    /\ json.phase = "built"
    /\ json' = [json EXCEPT !.phase = "encoded", !.bytes = serialize_json_value(json.value)]
    /\ UNCHANGED <<wvars, rvars, bad, ivars, sx, bin, doc>>

\* the first byte of the encoding is replaced by b
JsonTamper(b) ==
    /\ json.phase = "encoded"
    /\ ~ json.tampered
    /\ b # json.bytes[1]
    /\ json' = [json EXCEPT !.bytes = [json.bytes EXCEPT ![1] = b], !.tampered = TRUE]
    /\ UNCHANGED <<wvars, rvars, bad, ivars, sx, bin, doc>>

\* deserialize_json on the bytes
JsonDeserialize ==
    /\ json.phase = "encoded"
    /\ \E r \in {deserialize_json(json.bytes)} :
          json' = [json EXCEPT !.phase = "decoded",
                               !.result = << [kind |-> r.kind, value |-> r.value] >>]
    /\ UNCHANGED <<wvars, rvars, bad, ivars, sx, bin, doc>>

NextJson ==
    \/ \E codes \in SeqsUpTo(PropertyCodes, MaxItems) : JsonBuild(codes)
    \/ JsonSerialize
    \/ \E b \in 0..7 : JsonTamper(b)
    \/ JsonDeserialize

SpecJson == InitIndex /\ [][NextJson]_vars

(***************************************************************************)
(* One get_property_value call: a document {"a": X} is built, X being one  *)
(* of Elements or an array of up to MaxElements of them, and               *)
(* get_property_value is called on it with one of Paths.                   *)
(***************************************************************************)
\* the object with the one property "b" holding v
WithB(v) == JObject(<< [k |-> <<98>>, v |-> v] >>)

\* what an array of the document holds: objects with a property "b"
\* (a number, a null, an object, an array), an object without it, a number,
\* an array of objects
Elements ==
    << WithB(JInt(1)), WithB(JInt(2)), JObject(<<>>), WithB(JNull), JInt(-1),
       JArray(<< WithB(JInt(3)), WithB(JInt(4)) >>), WithB(WithB(JBool(TRUE))),
       WithB(JArray(<< WithB(JInt(5)) >>)) >>

\* "a", "a.b", "a.b.b", "b", "", "a.", "a..b"
Paths ==
    { <<97>>, <<97, Dot, 98>>, <<97, Dot, 98, Dot, 98>>, <<98>>, <<>>, <<97, Dot>>,
      <<97, Dot, Dot, 98>> }

\* the document {"a": Elements[i]}
DocumentOfElement(i) == JObject(<< [k |-> <<97>>, v |-> Elements[i]] >>)

\* the document {"a": [Elements[s[1]], ..]}
DocumentOfArray(s) ==
    JObject(<< [k |-> <<97>>, v |-> JArray([i \in 1..Len(s) |-> Elements[s[i]]])] >>)

\* the document is parsed; the array of s, or the element s[1] alone
DocBuild(s, alone) ==
    /\ doc.phase = "none"
    /\ doc' = [doc EXCEPT !.phase = "built",
                          !.value = IF alone THEN DocumentOfElement(s[1])
                                    ELSE DocumentOfArray(s)]
    /\ UNCHANGED <<wvars, rvars, bad, ivars, sx, bin, json>>

\* get_property_value(v, path)
DocGetPropertyValue(path) ==
    /\ doc.phase = "built"
    /\ doc' = [doc EXCEPT !.phase = "got", !.path = path,
                          !.result = get_property_value(doc.value, path)]
    /\ UNCHANGED <<wvars, rvars, bad, ivars, sx, bin, json>>

NextDocument ==
    \/ \E s \in SeqsUpTo(1..Len(Elements), MaxElements) : DocBuild(s, FALSE)
    \/ \E i \in 1..Len(Elements) : DocBuild(<<i>>, TRUE)
    \/ \E path \in Paths : DocGetPropertyValue(path)

SpecDocument == InitIndex /\ [][NextDocument]_vars

(***************************************************************************)
(* write_offset with entries whose flag is as the caller built them: by    *)
(* FenseIndex::new, or by a struct literal with active: true as the tests  *)
(* do.                                                                     *)
(***************************************************************************)
\* write_offset(num, ix, offset), ix = FenseIndex::new(target, value) when
\* built_by_new, FenseIndex { active: true, target, value } otherwise
WriteOffsetIx(num, value, offset, built_by_new) ==
    /\ LET ix == IF built_by_new THEN FenseIndex_new(iops + 1, value) ELSE Entry(value)
       IN  /\ SetX(write_offset(X, num, ix, offset))
           /\ ilast' = [op |-> "write_ix", num |-> num, kind |-> "", result |-> "ok",
                        before |-> <<>>, offset |-> offset, ix |-> ix]
    /\ iops' = iops + 1
    /\ iused' = iused \cup {"write_ix"}
    /\ UNCHANGED <<stored, wvars, rvars, bad, pvars>>

NextWrite ==
    \E num \in Handles : \E value \in IndexValues : \E offset \in Slots :
       \E built_by_new \in BOOLEAN :
          iops < MaxIndexOps /\ WriteOffsetIx(num, value, offset, built_by_new)

SpecWrite == InitIndex /\ [][NextWrite]_vars

(***************************************************************************)
(* clear_offset on any open fragment, empty ones included.  The u32        *)
(* subtraction header.records_count - 1 on a count of 0 panics in a build  *)
(* with overflow checks (debug) and wraps to 0xFFFFFFFF in one without     *)
(* (release); to_le_bytes of -1 gives the four 0xFF bytes.                 *)
(***************************************************************************)
Builds == {"debug", "release"}

\* clear_offset(num, offset).  files: the files when the call was made
ClearOffsetAny(num, offset, build) ==
    /\ IF read_header(X, num).records_count = 0 /\ build = "debug"
       THEN /\ UNCHANGED <<ix_files, write_handles, fragment_count, written>>
            /\ ilast' = [op |-> "clear_any", num |-> num, kind |-> "", result |-> "panic",
                         before |-> <<>>, offset |-> offset, files |-> ix_files]
       ELSE /\ SetX(clear_offset(X, num, offset))
            /\ ilast' = [op |-> "clear_any", num |-> num, kind |-> "", result |-> "ok",
                         before |-> <<>>, offset |-> offset, files |-> ix_files]
    /\ iops' = iops + 1
    /\ iused' = iused \cup {"clear_any"}
    /\ UNCHANGED <<stored, wvars, rvars, bad, pvars>>

\* no call has panicked and no header count has wrapped
Sound == ilast.result # "panic"
         /\ \A num \in Handles : read_header(X, num).records_count < U64Huge

\* write_offset and clear_offset calls; nothing is called after a panic or
\* on a header whose count has wrapped
NextClear ==
    \/ \E num \in Handles : \E value \in IndexValues : \E offset \in Slots :
          iops < MaxIndexOps /\ Sound /\ WriteOffset(num, value, offset)
    \/ \E num \in Handles : \E offset \in Slots : \E build \in Builds :
          iops < MaxIndexOps /\ Sound /\ ClearOffsetAny(num, offset, build)

SpecClear == InitIndex /\ [][NextClear]_vars

(***************************************************************************)
(* The log resumed: a writer appends, is dropped between two calls, and    *)
(* DiskWriter::new is called on the same path with the same page_size; the *)
(* new writer goes on appending, then a reader is opened and iterated.     *)
(***************************************************************************)
NextResume ==
    \/ \E buf \in Buffers : rstate = "closed" /\ AddRecord(buf)
    \/ AddRecordMeta
    \/ \E buffers \in SeqsUpTo(Buffers, MaxBulk) : rstate = "closed" /\ BulkAddRecords(buffers)
    \/ BulkMeta
    \/ rstate = "closed" /\ Reopen(wpage)
    \/ wpc = "idle" /\ ReaderNew
    \/ ReaderNext

SpecResume == Init /\ [][NextResume]_vars

(***************************************************************************)
(* Properties                                                              *)
(***************************************************************************)
\* the header as it stands in the file
Header == read_metadata(file)

Idle == wpc = "idle"

\* the log has seen add_record calls only
OnlyAdds == shape \in {"fresh", "adds"}

\* C1: on a log filled by add_record calls only, a reader opened afterwards
\* yields the appended contents in the order of the calls, one record per
\* call, and then None.
C1_IterationOrder ==
    OnlyAdds =>
        /\ rstate # "panicked"
        /\ Len(rout) <= rsnap + 1
        /\ \A i \in 1..Len(rout) :
              IF i <= rsnap
              THEN /\ rout[i].kind = "some"
                   /\ rout[i].record.content = appended[i]
                   /\ rout[i].record.content_size = Len(appended[i])
              ELSE rout[i] = None
        /\ rstate = "open" => rsnap = Len(appended)

C1_Witness ==
    /\ shape = "adds"
    /\ Len(appended) = 3
    /\ appended[1] # appended[2]
    /\ Len(rout) = 4

\* C2: after add_record calls only, the header in the file holds
\* records_count = n and position = 32 + the sum of 13 + |b_i|.
C2_HeaderAfterAdds ==
    (Idle /\ OnlyAdds) =>
        /\ Header.records_count = Len(appended)
        /\ Header.position = 32 + SumSizes(appended)

C2_Witness ==
    /\ Idle
    /\ shape = "adds"
    /\ Len(appended) = 3
    /\ \E i \in 1..3 : appended[i] # <<>>

\* C3: after any interleaving of completed add_record and bulk_add_records
\* calls the header's records_count is the number of records ever appended.
C3_CountAfterAnyCalls ==
    Idle => Header.records_count = Len(appended)

\* C4: one bulk_add_records(bs) on a fresh log leaves the same header
\* position and the same bytes in [0, position) as add_record(b) for each b
\* of bs on another fresh log of the same page_size.
C4_BulkEqualsLoop ==
    (Idle /\ shape = "bulk1") =>
        LET loop == add_records(new(Header.page_size), appended)
            pos  == read_metadata(loop.file).position
        IN  /\ pos = Header.position
            /\ pos <= Len(loop.file)
            /\ pos <= Len(file)
            /\ SubSeq(loop.file, 1, pos) = SubSeq(file, 1, pos)

C4_Witness ==
    /\ Idle
    /\ shape = "bulk1"
    /\ Len(appended) = 2
    /\ appended[1] # appended[2]

\* C5: after every completed add_record or bulk_add_records call, and after
\* DiskWriter::new, the file length is a whole multiple of page_size.
C5_LengthIsPageMultiple ==
    Idle => Len(file) % wmeta.page_size = 0

\* C6: after every completed add_record or bulk_add_records call the
\* header position is at most the file length.
C6_PositionWithinFile ==
    Idle => Header.position <= Len(file)

\* a call has just ended with the file ending exactly at the header position
C6_Witness ==
    /\ Idle
    /\ appended # <<>>
    /\ Header.position = Len(file)

RECURSIVE Covered(_, _, _)
\* [pos, end) of f is a run of complete records with matching checksums
Covered(f, pos, end) ==
    \/ pos = end
    \/ /\ pos + 13 <= end
       /\ end <= Len(f)
       /\ LET len == read_u64(BytesAt(f, pos, 8))
          IN  /\ pos + 13 + len <= end
              /\ BytesAt(f, pos + 8, 4) = crc32(BytesAt(f, pos + 12, len))
              /\ Covered(f, pos + 13 + len, end)

\* C7: in every state of the log, the states between the data write and
\* the header write included, [32, header.position) holds complete records
\* only, each with checksum = crc32(content).
C7_HeaderCoversWholeRecords ==
    Covered(file, 32, Header.position)

\* the data of a batch is written, the header does not yet cover it
C7_Witness ==
    /\ wpc = "bulk_data"
    /\ Len(wcall[1].buffers) = 2
    /\ appended # <<>>
    /\ Header.position < wcursor

\* the smallest altered ordinal
FirstBad == CHOOSE k \in bad : \A j \in bad : k <= j

\* C8: when the content of the k-th record no longer matches its stored
\* checksum, iteration yields the records 1..k-1 unchanged and no record
\* at position k.
C8_StopsAtCorruptRecord ==
    (bad # {} /\ rstate # "closed") =>
        /\ rstate # "panicked"
        /\ FirstBad <= rsnap
        /\ \A i \in 1..Len(rout) :
              /\ i < FirstBad => /\ rout[i].kind = "some"
                                 /\ rout[i].record.content = appended[i]
              /\ i = FirstBad => rout[i] = None

\* the reader has passed a good record and stopped at the altered one
C8_Witness ==
    /\ bad = {2}
    /\ rstate = "open"
    /\ Len(rout) = 2
    /\ rout[2] = None

\* C9: add_record(b) returns the header position of before the call, and
\* a reader sought to that offset reads a record of content b.
C9_ReturnsRecordOffset ==
    lastRet # <<>> =>
        LET c   == lastRet[1]
            res == read_next_record(file, seek_to(rcursor, c.ret), Header,
                                    DefaultMaxRecordSize)
        IN  /\ c.ret = c.before
            /\ res.kind = "ok"
            /\ res.record.content = c.buffers[1]

C9_Witness ==
    /\ lastRet # <<>>
    /\ lastRet[1].ret > RecordsFileMeta_size
    /\ lastRet[1].buffers[1] # <<>>

\* what the predicate pred says of the i-th record, of content b
Matches(pred, b, i) ==
    \/ pred.kind = "ordinal" /\ i = pred.k
    \/ pred.kind = "content" /\ b = pred.content

\* C10: find_record(f) scans from the first record wherever the cursor
\* was, hands each record and its 1-based ordinal to f, returns the first
\* record f accepts and None when f accepts none.
C10_FindFirstMatch ==
    (rfind # <<>> /\ bad = {}) =>
        LET c    == rfind[1]
            hits == { i \in 1..rsnap : Matches(c.pred, appended[i], i) }
        IN  IF hits = {}
            THEN c.item = None
            ELSE LET first == CHOOSE i \in hits : \A j \in hits : i <= j
                 IN  /\ c.item.kind = "some"
                     /\ c.item.record.content = appended[first]
                     /\ rcursor = 32 + SumSizes(SubSeq(appended, 1, first))

\* called with the cursor behind the match, the second of two matching records
\* is not taken
C10_Witness ==
    /\ rfind # <<>>
    /\ rfind[1].moved
    /\ rfind[1].pred.kind = "content"
    /\ Len(appended) = 3
    /\ appended[1] # appended[2]
    /\ appended[2] = appended[3]
    /\ rfind[1].pred.content = appended[2]
    /\ Len(rout) >= 3

\* C11: DiskWriter::new on an existing log whose stored version or stored
\* page_size differs from the expected version / the page_size argument is
\* rejected and leaves the length and the bytes of the file unchanged.
C11_OpenValidatesHeader ==
    \A i \in 1..Len(reopened) :
        LET o == reopened[i]
        IN  (o.stored.version # MetaVersion \/ o.stored.page_size # o.page_size) =>
                /\ o.kind = "err"
                /\ o.untouched

\* the bytes [from, to) of the file are on the medium as they are in the file
DataSynced(from, to) ==
    /\ to <= Len(durable)
    /\ to <= Len(file)
    /\ \A i \in (from + 1)..to : durable[i] = file[i]

\* C12: in add_record and in bulk_add_records the record data is written
\* and synced before the header is rewritten, and the header write is
\* synced before the call returns: when the header write is about to start
\* the data it will cover is on the medium, and between two calls the whole
\* file is.
C12_DataSyncedBeforeHeader ==
    /\ wpc \in {"add_data", "bulk_data"} => DataSynced(wmeta.position, wcursor)
    /\ Idle => durable = file

\* C13: a reader opened when the header covered n records yields exactly
\* those n records, in order, and then None, whatever the writer appends
\* before or during the iteration.
C13_SnapshotIteration ==
    rstate # "closed" =>
        /\ rstate # "panicked"
        /\ Len(rout) <= rsnap + 1
        /\ \A i \in 1..Len(rout) :
              IF i <= rsnap
              THEN /\ rout[i].kind = "some"
                   /\ rout[i].record.content = appended[i]
              ELSE rout[i] = None

\* the reader was opened on one record, has yielded it and then None, and
\* the writer has appended a second record and is inside a further call
C13_Witness ==
    /\ rstate = "open"
    /\ rsnap = 1
    /\ Len(rout) = 2
    /\ Len(appended) = 2
    /\ wpc = "add_data"

\* the fragments of the index folder, by fragment number, read through
\* handles opened in the order of the numbers
Fragments == DOMAIN ix_files

ByNumber == [X EXCEPT !.handles = [i \in 1..Cardinality(Fragments) |-> i - 1]]

FragmentHeader(n) == read_header(ByNumber, n)

\* the slots the file of fragment n holds
SlotsOf(n) ==
    0..((Len(ix_files[n]) - Header_get_binary_size(u32_get_binary_size))
           \div compute_value_default_size.total_size - 1)

FragmentSlot(n, i) == read_offset(ByNumber, n, i).ix

\* the slots of fragment n whose active flag is true
ActiveSlots(n) == { i \in SlotsOf(n) : FragmentSlot(n, i).active }

\* the active slots of all fragments
AllActive == { s \in UNION { { <<n, i>> : i \in SlotsOf(n) } : n \in Fragments } :
                 FragmentSlot(s[1], s[2]).active }

\* C14: after storing more entries than a fragment holds with store on an
\* initially empty index, the active slots of all fragments hold the stored
\* (value, target) entries, each exactly once, and nothing else.
C14_NoEntryLostOrDuplicated ==
    Len(stored) > max_records_count_per_fragments =>
        /\ \A k \in 1..Len(stored) :
              Cardinality({ s \in AllActive : FragmentSlot(s[1], s[2]) = stored[k] }) = 1
        /\ \A s \in AllActive :
              \E k \in 1..Len(stored) : FragmentSlot(s[1], s[2]) = stored[k]

\* C15: for every fragment the header records_count is the number of slots
\* of the fragment whose active flag is true.
C15_CountIsActiveSlots ==
    \A n \in Fragments : FragmentHeader(n).records_count = Cardinality(ActiveSlots(n))

\* C16: after write_offset and store calls only, the value of every active
\* slot of every fragment lies within [min_value, max_value] of the header.
C16_ActiveValuesWithinRange ==
    iused \subseteq {"write", "store"} =>
        \A n \in Fragments : \A i \in ActiveSlots(n) :
            /\ FragmentHeader(n).min_value <= FragmentSlot(n, i).value
            /\ FragmentSlot(n, i).value <= FragmentHeader(n).max_value

\* C17: after a store call that performed a split and returned Ok, the
\* inclusive ranges [min_value, max_value] of any two fragments are disjoint.
C17_NoOverlapAfterSplit ==
    (ilast.op = "store" /\ ilast.kind = "Split" /\ ilast.result = "ok") =>
        \A m \in Fragments : \A n \in Fragments :
            m # n => \/ FragmentHeader(m).max_value < FragmentHeader(n).min_value
                     \/ FragmentHeader(n).max_value < FragmentHeader(m).min_value

\* a is not after b in the order by (value, target)
InOrder(a, b) == a.value < b.value \/ (a.value = b.value /\ a.target <= b.target)

\* C18: after reorder_indexes(num) on a fragment that held k active slots,
\* at whatever offsets, the slots 0..k-1 are active and ascending by
\* (value, target).
C18_ReorderSortsPrefix ==
    (ilast.op = "reorder" /\ ilast.result = "ok") =>
        LET k == Len(ilast.before)
            n == write_handles[ilast.num + 1]
        IN  /\ \A i \in 0..(k - 1) : FragmentSlot(n, i).active
            /\ \A i \in 0..(k - 2) : InOrder(FragmentSlot(n, i), FragmentSlot(n, i + 1))

\* the fragment held two entries of equal value, away from slot 0 and the
\* one of the larger target first
C18_Witness ==
    /\ ilast.op = "reorder"
    /\ Len(ilast.before) = 2
    /\ ilast.before[1].slot = 1
    /\ ilast.before[1].ix.value = ilast.before[2].ix.value
    /\ ilast.before[1].ix.target > ilast.before[2].ix.target

Full(h) == h.records_count >= h.max_records_count

NoMatch == [kind |-> "NoMatch", num |-> 0]

\* what fragment i, of header h, answers for the value v
Outcome(h, v, i) ==
    IF Full(h) /\ h.min_value < v /\ v < h.max_value THEN Split(i)
    ELSE IF h.min_value = default_value /\ h.max_value = default_value THEN Specific(i)
    ELSE IF h.records_count < h.max_records_count THEN Specific(i)
    ELSE NoMatch

\* C19: get_index_file_num_for_store returns the outcome of the first open
\* fragment, in handle order, that is full with the value strictly in range
\* (Split), has min = max = default (Specific) or is not full (Specific),
\* and NextAvailable when no open fragment matches; it returns Specific(0)
\* whenever fragment 0 is not full.
C19_FirstMatchingFragment ==
    \A v \in IndexValues :
        LET got      == get_index_file_num_for_store(X, Entry(v))
            matching == { i \in Handles : Outcome(read_header(X, i), v, i) # NoMatch }
        IN  /\ IF matching = {} THEN got = NextAvailable
               ELSE LET first == CHOOSE i \in matching : \A j \in matching : i <= j
                    IN  got = Outcome(read_header(X, first), v, first)
            /\ (Handles # {} /\ ~ Full(read_header(X, 0))) => got = Specific(0)

\* fragment 0 holds an entry and is not full, fragment 1 holds an entry whose
\* value is asked for
C19_Witness ==
    /\ Len(write_handles) = 2
    /\ FragmentHeader(0).records_count = 1
    /\ FragmentHeader(0).min_value # default_value
    /\ \E i \in ActiveSlots(1) :
          /\ FragmentSlot(1, i).value \in IndexValues
          /\ FragmentHeader(1).min_value <= FragmentSlot(1, i).value
          /\ FragmentSlot(1, i).value <= FragmentHeader(1).max_value
          /\ FragmentSlot(1, i).value # FragmentHeader(0).min_value
          /\ get_index_file_num_for_store(X, Entry(FragmentSlot(1, i).value)) = Specific(0)

RECURSIVE WrittenActiveFrom(_, _)
\* the entries last written with active = true to the slots i.. of
\* fragment n, in slot order
WrittenActiveFrom(n, i) ==
    IF i >= max_records_count_per_fragments THEN <<>>
    ELSE (IF <<n, i>> \in DOMAIN written /\ written[<<n, i>>].active
          THEN << written[<<n, i>>] >> ELSE <<>>)
           \o WrittenActiveFrom(n, i + 1)

\* C20: read_all_indexes(num, s) returns the slots s..max_records_count - 1
\* whose active flag is true, in slot order: the entries last written there
\* with active = true; slots never written and slots below s are not returned.
C20_ReadAllActiveFrom ==
    \A num \in Handles : \A s \in 0..max_records_count_per_fragments :
        LET r == read_all_indexes(X, num, s)
        IN  /\ r.kind = "ok"
            /\ r.items = WrittenActiveFrom(write_handles[num + 1], s)

\* slot 0 is active, slot 1 was never written, slot 2 is active: from
\* s = 1 only the entry of slot 2 is returned
C20_Witness ==
    /\ <<0, 0>> \in DOMAIN written /\ written[<<0, 0>>].active
    /\ <<0, 1>> \notin DOMAIN written
    /\ <<0, 2>> \in DOMAIN written /\ written[<<0, 2>>].active
    /\ Len(read_all_indexes(X, 0, 1).items) = 1
(***************************************************************************)
(* The slots of a String fragment                                          *)
(***************************************************************************)
\* C21: after write_offset(num, ix, i) with i < max_records_count and a value
\* of any length, read_offset(num, i) returns ix.target and the fixed-width
\* encoding of ix.value; every other slot reads as it did before the call,
\* and each header range field is what it was or the encoded value.
C21_SlotWrittenIsSlotRead ==
    (sx.last # <<>> /\ sx.last[1].kind = "ok") =>
        LET c == sx.last[1]
            encoded == pad_or_truncate_string(c.ix.value, Space, index_value_size)
            r == read_offset_String(sx.file, c.offset)
            h0 == read_header_String(c.before)
            h1 == read_header_String(sx.file)
        IN  /\ r.kind = "ok"
            /\ r.ix.target = c.ix.target
            /\ r.ix.value = encoded
            /\ \A j \in Slots \ {c.offset} :
                  read_offset_String(sx.file, j) = read_offset_String(c.before, j)
            /\ h1.kind = "ok"
            /\ h1.min_value \in {h0.min_value, encoded}
            /\ h1.max_value \in {h0.max_value, encoded}

(***************************************************************************)
(* Fragments opened in any order                                           *)
(***************************************************************************)
\* the header the bytes of the file of fragment n decode to
FileHeader(n) == read_header([X EXCEPT !.handles = << n >>], 0)

\* C22: open_fragment(num) on a fragment file that does not exist creates
\* it, leaves in it a header with the configured capacity and threshold,
\* records_count 0 and min_value = max_value = default_value, and adds one
\* to fragment_count; on a file that exists it changes neither the files
\* nor fragment_count.
C22_OpenFragmentCreatesOrKeeps ==
    ilast.op = "open" =>
        IF ilast.existed
        THEN ix_files = ilast.files /\ fragment_count = ilast.count
        ELSE /\ ilast.result = "ok"
             /\ ilast.num \in DOMAIN ix_files
             /\ FileHeader(ilast.num) =
                    [max_records_count |-> max_records_count_per_fragments,
                     records_count     |-> 0,
                     shift_threshold   |-> shift_threshold,
                     min_value         |-> default_value,
                     max_value         |-> default_value]
             /\ fragment_count = ilast.count + 1

(***************************************************************************)
(* BinaryWriter and BinaryReader                                           *)
(***************************************************************************)
\* the number of bytes a value takes once encoded
EncodedWidth(val) ==
    CASE val.t = "string" -> 8 + Len(as_bytes(val.v))
      [] val.t \in {"i32", "u32"} -> 4
      [] val.t \in {"i64", "u64"} -> 8
      [] val.t \in {"bool", "u8"} -> 1

\* C23: values written to a BinaryWriter and read back in the same order
\* come back equal, each read moving the cursor by the encoded width of the
\* value, and one more read at the end of the buffer returns an error.
C23_ReadBackInOrder ==
    \A k \in 1..Len(bin.reads) :
        IF k <= Len(bin.written)
        THEN /\ bin.reads[k].kind = "ok"
             /\ bin.reads[k].value = bin.written[k].v
             /\ bin.reads[k].after = bin.reads[k].before + EncodedWidth(bin.written[k])
        ELSE bin.reads[k].kind = "err"

\* a string with a two-byte char, an i32 and a bool were written and read
\* back, and one more read was made
C23_Witness ==
    /\ Len(bin.written) = 3
    /\ Len(bin.reads) = 4
    /\ bin.written[1].t = "string"
    /\ Len(as_bytes(bin.written[1].v)) = 3
    /\ bin.written[2].t = "i32"
    /\ bin.written[3].t = "bool"

\* the number of bytes the value a read returned takes in the buffer
DecodedWidth(t, value) ==
    CASE t = "string" -> 8 + Len(as_bytes(value))
      [] t \in {"i32", "u32"} -> 4
      [] t \in {"i64", "u64"} -> 8
      [] t \in {"bool", "u8"} -> 1

\* C26: every read_u8, read_i32, read_u32, read_i64, read_u64, read_bool and
\* read_string either succeeds and moves the cursor by the decoded width, or
\* returns an error and leaves the cursor where it was, also when fewer
\* bytes than the read needs are left in the buffer; no read aborts.
C26_ReadAdvancesOrFails ==
    \A k \in 1..Len(bin.reads) :
        LET r == bin.reads[k]
        IN  /\ r.kind # "panic"
            /\ r.kind = "ok" => r.after = r.before + DecodedWidth(r.t, r.value)
            /\ r.kind = "err" => r.after = r.before

(***************************************************************************)
(* The tagged serializer                                                   *)
(***************************************************************************)
RECURSIVE SameValue(_, _)
\* the Values a and b are equal (the types are compared first)
SameValue(a, b) ==
    /\ a.t = b.t
    /\ CASE a.t = "null" -> TRUE
         [] a.t \in {"bool", "int", "text"} -> a.v = b.v
         [] a.t = "array" ->
               /\ Len(a.v) = Len(b.v)
               /\ \A i \in 1..Len(a.v) : SameValue(a.v[i], b.v[i])
         [] a.t = "object" ->
               /\ Len(a.v) = Len(b.v)
               /\ \A i \in 1..Len(a.v) :
                     a.v[i].k = b.v[i].k /\ SameValue(a.v[i].v, b.v[i].v)

\* C24: for a top-level object built from null, bool, i64, string, arrays
\* and nested objects, null at any position, deserialize_json of the bytes
\* of serialize_json is Ok and gives the object back.
C24_JsonRoundTrip ==
    (json.phase = "decoded" /\ ~ json.tampered) =>
        /\ json.result[1].kind = "ok"
        /\ SameValue(json.result[1].value, json.value)

\* C25: deserialize_json returns an error on every input whose first byte
\* is not the Object tag 6, another valid tag (0..5) included.
C25_TopLevelTagEnforced ==
    (json.phase = "decoded" /\ json.bytes[1] # TypeFlag_to_bin("object")) =>
        json.result[1].kind # "ok"

(***************************************************************************)
(* get_property_value                                                      *)
(***************************************************************************)
\* the lists of Values a and b are equal
SameList(a, b) == Len(a) = Len(b) /\ \A i \in 1..Len(a) : SameValue(a[i], b[i])

\* the members of v named seg
Members(v, seg) == { i \in 1..Len(v.v) : v.v[i].k = seg }

RECURSIVE Contribution(_, _), Contributions(_, _)
\* what one current value contributes for a segment: an array, the
\* contributions of its elements, in order; any other value, its member
\* named seg when it has one that is not null
Contribution(v, seg) ==
    IF v.t = "array" THEN Contributions(v.v, seg)
    ELSE IF v.t = "object" /\ Members(v, seg) # {}
            /\ v.v[CHOOSE i \in Members(v, seg) : TRUE].v.t # "null"
    THEN << v.v[CHOOSE i \in Members(v, seg) : TRUE].v >>
    ELSE <<>>

\* the contributions of the values of a list, one after the other
Contributions(list, seg) ==
    IF list = <<>> THEN <<>>
    ELSE Contribution(Head(list), seg) \o Contributions(Tail(list), seg)

RECURSIVE Segments(_)
\* the segments of a dotted path
Segments(path) ==
    IF \A i \in 1..Len(path) : path[i] # Dot THEN << path >>
    ELSE LET d == CHOOSE i \in 1..Len(path) :
                      path[i] = Dot /\ \A j \in 1..(i - 1) : path[j] # Dot
         IN  << SubSeq(path, 1, d - 1) >> \o Segments(SubSeq(path, d + 1, Len(path)))

RECURSIVE Folded(_, _)
\* the list obtained from list by taking the contributions for each segment in turn
Folded(list, segs) ==
    IF segs = <<>> THEN list ELSE Folded(Contributions(list, Head(segs)), Tail(segs))

\* C27: get_property_value(v, path) is the fold of the segments of the
\* dotted path over the list [v], an array contributing what its elements
\* contribute for the same segment, any other value its non-null member of
\* that name or nothing; the order of the document is kept.
C27_PathFoldsOverArrays ==
    doc.phase = "got" =>
        SameList(doc.result, Folded(<< doc.value >>, Segments(doc.path)))

\* "a.b" on {"a": [{"b": 1}, {}, {"b": 2}]}: the element without "b" is
\* skipped, 1 and 2 come back in their order
C27_Witness ==
    /\ doc.phase = "got"
    /\ doc.path = <<97, Dot, 98>>
    /\ SameValue(doc.value, DocumentOfArray(<<1, 3, 2>>))
    /\ SameList(doc.result, << JInt(1), JInt(2) >>)

(***************************************************************************)
(* Records are never rewritten                                             *)
(***************************************************************************)
\* the position of the writer when the call a step belongs to was made
PositionBeforeCall == IF wpc = "idle" THEN wmeta.position ELSE wcall[1].before

\* a step of add_record or bulk_add_records
WriterCallStep == wpc' # wpc

\* C28: a step of add_record or bulk_add_records leaves every byte of
\* [32, position before the call) as it was and takes no byte away; the
\* bytes it changes are in the header or at the position or behind it.
C28_RecordsNeverRewritten ==
    [][WriterCallStep =>
          /\ Len(file') >= Len(file)
          /\ \A o \in 0..(Len(file) - 1) :
                file'[o + 1] # file[o + 1] => o < RecordsFileMeta_size \/ o >= PositionBeforeCall
          /\ SubSeq(file', RecordsFileMeta_size + 1, PositionBeforeCall)
                = SubSeq(file, RecordsFileMeta_size + 1, PositionBeforeCall)]_vars

\* add_record and bulk_add_records have both returned, the later of them
\* having been called on a log that held records
C28_Witness ==
    /\ wpc = "idle"
    /\ shape = "mixed"
    /\ wmeta.position > RecordsFileMeta_size + 13
    /\ reopened # <<>>

(***************************************************************************)
(* Iteration after a read error                                            *)
(***************************************************************************)
\* the calls of next() that returned None
NoneCalls == { i \in 1..Len(rout) : rout[i].kind = "none" }

\* the first call of next() that returned None, the records before it
\* having been yielded: the call that read record number FirstNone
FirstNone == CHOOSE i \in NoneCalls : \A j \in NoneCalls : i <= j

\* C29: once next() has returned None because the record it read failed
\* its checksum, every later next() of the same reader returns None.
C29_IterationHaltsAfterError ==
    (NoneCalls # {} /\ FirstNone \in bad) =>
        \A j \in FirstNone..Len(rout) : rout[j].kind = "none"

(***************************************************************************)
(* The effects of a split                                                  *)
(***************************************************************************)
\* the last call was a store that split a fragment and returned Ok
SplitDone == ilast.op = "store" /\ ilast.kind = "Split" /\ ilast.result = "ok"

\* the entries E the split fragment held, those above the stored value and
\* those not above it
SplitHeld == { ilast.before[k].ix : k \in 1..Len(ilast.before) }
SplitAbove == { e \in SplitHeld : e.value > stored[Len(stored)].value }
SplitKept == SplitHeld \ SplitAbove

\* the entries of the active slots of fragment n
ActiveEntries(n) == { FragmentSlot(n, i) : i \in ActiveSlots(n) }

\* C30: after a store(ix) that split the full fragment num holding E, the
\* entries of E above ix.value are active in the new fragment (numbered
\* fragment_count before the call) and not in num; the others are in the
\* slots [0, new_count) of num in ascending (value, target) order; ix is in
\* slot new_count; num has no other active slot.
C30_SplitEffects ==
    SplitDone =>
        LET ix == stored[Len(stored)]
            num == write_handles[ilast.num + 1]
            next_num == fragment_count - 1
            new_count == Cardinality(SplitKept)
        IN  /\ SplitAbove \subseteq ActiveEntries(next_num)
            /\ SplitAbove \cap ActiveEntries(num) = {}
            /\ { FragmentSlot(num, i) : i \in 0..(new_count - 1) } = SplitKept
            /\ \A i \in 0..(new_count - 2) :
                  InOrder(FragmentSlot(num, i), FragmentSlot(num, i + 1))
            /\ FragmentSlot(num, new_count) = ix
            /\ ActiveSlots(num) = 0..new_count

(***************************************************************************)
(* The headers a split leaves                                              *)
(***************************************************************************)
\* the values of the entries the split moved
MovedValues == { e.value : e \in SplitAbove }

\* C31: after a store(ix) that split fragment num into the new fragment,
\* the header of num has its former min_value and max_value = ix.value, and
\* the header of the new fragment has records_count = the number of moved
\* entries, min_value = the smallest and max_value = the largest moved
\* value, whatever the order of the slots before the split.
C31_SplitHeaders ==
    SplitDone =>
        LET ix == stored[Len(stored)]
            num == write_handles[ilast.num + 1]
            next_num == fragment_count - 1
        IN  /\ FragmentHeader(num).min_value = ilast.header.min_value
            /\ FragmentHeader(num).max_value = ix.value
            /\ FragmentHeader(next_num).records_count = Cardinality(SplitAbove)
            /\ \A v \in MovedValues :
                  /\ FragmentHeader(next_num).min_value <= v
                  /\ v <= FragmentHeader(next_num).max_value
            /\ MovedValues # {} =>
                  /\ FragmentHeader(next_num).min_value \in MovedValues
                  /\ FragmentHeader(next_num).max_value \in MovedValues

(***************************************************************************)
(* The flag of a written slot                                              *)
(***************************************************************************)
\* C32: write_offset(num, ix, i) leaves slot i active whatever the active
\* flag of ix, so the entry is among those read_all_indexes returns.
C32_WrittenSlotIsActive ==
    ilast.op = "write_ix" =>
        LET n == write_handles[ilast.num + 1]
        IN  /\ FragmentSlot(n, ilast.offset).active
            /\ \E k \in 1..Len(read_all_indexes(X, ilast.num, 0).items) :
                  LET e == read_all_indexes(X, ilast.num, 0).items[k]
                  IN  e.target = ilast.ix.target /\ e.value = ilast.ix.value

(***************************************************************************)
(* The effects of clear_offset                                             *)
(***************************************************************************)
\* the index as it was when the last clear_offset was called
BeforeClear == [X EXCEPT !.files = ilast.files]

\* C33: clear_offset(num, i) leaves slot i inactive with target 0 and
\* default_value, takes exactly 1 from the header records_count, and leaves
\* the other header fields and every other slot of the fragment as they were.
C33_ClearOffsetEffects ==
    ilast.op = "clear_any" =>
        LET before == read_header(BeforeClear, ilast.num)
            after == read_header(X, ilast.num)
            slot == read_offset(X, ilast.num, ilast.offset).ix
        IN  /\ ilast.result = "ok"
            /\ ~ slot.active /\ slot.target = 0 /\ slot.value = default_value
            /\ after.records_count = before.records_count - 1
            /\ after.min_value = before.min_value
            /\ after.max_value = before.max_value
            /\ after.max_records_count = before.max_records_count
            /\ after.shift_threshold = before.shift_threshold
            /\ \A j \in Slots \ {ilast.offset} :
                  read_offset(X, ilast.num, j) = read_offset(BeforeClear, ilast.num, j)

(***************************************************************************)
(* The fourth branch of get_index_file_num_for_store                       *)
(***************************************************************************)
\* headers of a fragment of max_records_count_per_fragments slots, whatever
\* the count and the range, and the values asked for
SmallHeaders ==
    [records_count : 0..(max_records_count_per_fragments + 1),
     max_records_count : {max_records_count_per_fragments},
     shift_threshold : {shift_threshold},
     min_value : StoreValues, max_value : StoreValues]

\* the loop answers for handle i what the returning branch says
BranchAnswer(i, v) ==
    LET b == returning_branch(read_header(X, i), Entry(v))
        got == get_index_file_num_loop(X, Entry(v), i)
    IN  CASE b = 1 -> got = Split(i)
          [] b \in {2, 3, 4} -> got = Specific(i)
          [] OTHER -> got = get_index_file_num_loop(X, Entry(v), i + 1)

\* C34: in get_index_file_num_for_store the fourth if (value strictly in
\* range, after the Split test, the default test and the not-full test)
\* never returns: for every header and value an earlier if has returned
\* whenever its condition holds.
C34_FourthBranchNeverTaken ==
    /\ \A i \in Handles : \A v \in StoreValues :
          /\ returning_branch(read_header(X, i), Entry(v)) # 4
          /\ BranchAnswer(i, v)
    /\ \A h \in SmallHeaders : \A v \in StoreValues :
          returning_branch(h, Entry(v)) # 4

\* a fragment is full and a value lies strictly within its range: the
\* condition of the fourth if holds, and the Split test has returned
C34_Witness ==
    \E i \in Handles : \E v \in StoreValues :
       /\ read_header(X, i).records_count >= read_header(X, i).max_records_count
       /\ read_header(X, i).min_value < v
       /\ v < read_header(X, i).max_value
       /\ returning_branch(read_header(X, i), Entry(v)) = 1

(***************************************************************************)
(* The body of a null                                                      *)
(***************************************************************************)
\* the properties of the document that hold null
NullProperties == { i \in 1..Len(json.value.v) : json.value.v[i].v.t = "null" }

\* where the cursor is when the tag of property i has been read: the
\* encoding of the properties up to i ends there when i holds null
AfterTag(i) == Len(serialize_json_value(JObject(SubSeq(json.value.v, 1, i))))

\* C35: null is the tag byte 0 alone on the wire, and the decoder, having
\* read the tag 0 of a property, consumes no further byte: what follows the
\* null is decoded from its own first byte.
C35_NullHasEmptyBody ==
    (json.phase \in {"encoded", "decoded"} /\ ~ json.tampered) =>
        /\ serialize_json_value(JNull) = << TypeFlag_to_bin("null") >>
        /\ \A i \in NullProperties :
              /\ json.bytes[AfterTag(i)] = TypeFlag_to_bin("null")
              /\ BinarySerializer_read_value("null", json.bytes, AfterTag(i)).position
                    = AfterTag(i)

(***************************************************************************)
(* reorder_indexes and the contents of the fragment                        *)
(***************************************************************************)
\* how many of the active slots listed in s hold the entry e
Holding(s, e) == Cardinality({ k \in 1..Len(s) : s[k].ix = e })

\* C36: reorder_indexes(num) leaves the multiset of the active
\* (value, target) entries of the fragment as it was, also when the active
\* slots did not start at slot 0 or had gaps.
C36_ReorderKeepsEntries ==
    (ilast.op = "reorder" /\ ilast.result = "ok") =>
        LET after == ActiveFrom(X, ilast.num, 0)
        IN  /\ Len(after) = Len(ilast.before)
            /\ \A k \in 1..Len(after) :
                  Holding(after, after[k].ix) = Holding(ilast.before, after[k].ix)
            /\ \A k \in 1..Len(ilast.before) :
                  Holding(after, ilast.before[k].ix)
                     = Holding(ilast.before, ilast.before[k].ix)

(***************************************************************************)
(* Handles and fragment numbers                                            *)
(***************************************************************************)
\* C37: the entry at index n of write_handles is the file of fragment
\* number n, after any SortedIndexFiles::new and open_fragment calls, and
\* no call indexes write_handles past its end.
C37_HandleIsFragment ==
    /\ ilast.result # "panic"
    /\ \A n \in Handles : write_handles[n + 1] = n

(***************************************************************************)
(* The capacity of a fragment                                              *)
(***************************************************************************)
\* the bytes open_fragment gives a new fragment file: the header and
\* max_records_count_per_fragments slots
PreallocatedSize ==
    Header_get_binary_size(u32_get_binary_size)
      + compute_value_default_size.total_size * max_records_count_per_fragments

\* C38: after any sequence of store calls, every fragment has
\* records_count <= max_records_count and no slot of index >=
\* max_records_count has been written: every file is as long as it was
\* preallocated.
C38_WithinCapacity ==
    /\ \A n \in Fragments :
          /\ FragmentHeader(n).records_count <= FragmentHeader(n).max_records_count
          /\ Len(ix_files[n]) = PreallocatedSize
    /\ \A s \in DOMAIN written : s[2] < max_records_count_per_fragments

(***************************************************************************)
(* A writer re-opened on its log                                           *)
(***************************************************************************)
\* C39: a writer re-opened on an existing log with the same page_size has
\* the records_count and the position the previous writer stored, its next
\* add_record returns that position, where the earlier records end, and a
\* reader opened afterwards yields the earlier records followed by the new
\* ones.
C39_ReopenResumes ==
    reopened # <<>> =>
        /\ \A i \in 1..Len(reopened) : reopened[i].kind = "ok"
        /\ wpc = "idle" =>
              /\ wmeta.records_count = read_metadata(file).records_count
              /\ wmeta.position = read_metadata(file).position
              /\ wmeta.position = RecordOffset(Len(appended) + 1)
        /\ lastRet # <<>> =>
              /\ lastRet[1].ret = lastRet[1].before
              /\ lastRet[1].ret = RecordOffset(Len(appended))
        /\ \A i \in 1..Len(rout) :
              IF i <= Len(appended)
              THEN rout[i].kind = "some" /\ rout[i].record.content = appended[i]
              ELSE rout[i].kind = "none"

\* records were appended, the writer was re-opened and add_record called
\* again, and a reader has yielded all the records and then None
C39_Witness ==
    /\ reopened # <<>>
    /\ reopened[1].stored.position > RecordsFileMeta_size
    /\ lastRet # <<>>
    /\ lastRet[1].before > RecordsFileMeta_size
    /\ Len(rout) = Len(appended) + 1
    /\ rout[Len(rout)].kind = "none"

(***************************************************************************)
(* The position field of the records read                                  *)
(***************************************************************************)
\* C40: each Record yielded by a DiskReader, by iteration or by
\* find_record, carries in its position field the byte offset at which the
\* record starts in the file, the value add_record returned for it.
C40_RecordCarriesItsOffset ==
    /\ \A i \in 1..Len(rout) :
          rout[i].kind = "some" => rout[i].record.position = RecordOffset(i)
    /\ \A i \in 1..Len(rfind) :
          rfind[i].item.kind = "some" =>
              \E k \in 1..Len(appended) :
                 /\ appended[k] = rfind[i].item.record.content
                 /\ rfind[i].item.record.position = RecordOffset(k)

====
